---- MODULE Spec2Model ----
(***************************************************************************)
(* A model of google-contacts-backup's restore engine: the archive loader  *)
(* (internal/models), the People API client (internal/contacts) and the    *)
(* restore command (cmd/restore.go), run against a remote directory that   *)
(* serves pages, may fail any request, and assigns identifiers.            *)
(*                                                                         *)
(* One step of the model is one statement block of runRestore up to and    *)
(* including its next remote request (or its return).                      *)
(***************************************************************************)
EXTENDS Integers, Sequences, FiniteSets, TLC

(***************************************************************************)
(* Program constants (internal/contacts)                                   *)
(***************************************************************************)
maxPageSize == 1000

batchDeleteSize == 500

batchCreateSize == 200

(***************************************************************************)
(* Bounds of the model                                                     *)
(***************************************************************************)
\* the largest remote directory: one record more than a full delete batch
MaxRemote == 501

\* the largest archive: one record more than a full create batch
MaxArchive == 201

\* a page limit the server may apply for records, below maxPageSize
SmallContactPage == 300

\* a page limit the server may apply for categories
SmallGroupPage == 3

(***************************************************************************)
(* Strings and small helpers                                               *)
(***************************************************************************)
HasPrefix(s, p) == Len(s) >= Len(p) /\ SubSeq(s, 1, Len(p)) = p

Min(a, b) == IF a < b THEN a ELSE b

Range(s) == {s[k] : k \in DOMAIN s}

RECURSIVE Flatten(_)
Flatten(ss) == IF ss = <<>> THEN <<>> ELSE Head(ss) \o Flatten(Tail(ss))

Digits == <<"1", "2", "3", "4", "5", "6", "7", "8", "9">>

(***************************************************************************)
(* Data: people.ContactGroup, people.Membership, people.Person             *)
(***************************************************************************)
UserGroupType == "USER_CONTACT_GROUP"

SystemGroupType == "SYSTEM_CONTACT_GROUP"

MyContacts == "contactGroups/myContacts"

Group(rn, name, type) == [resourceName |-> rn, name |-> name, groupType |-> type]

\* a membership in a contact group, stamped by the server
Member(rn) ==
    [hasContactGroupMembership |-> TRUE, contactGroupResourceName |-> rn,
     metadata |-> TRUE]

\* a domain membership: its ContactGroupMembership is nil
DomainMember ==
    [hasContactGroupMembership |-> FALSE, contactGroupResourceName |-> "",
     metadata |-> TRUE]

\* a person as the server returns it: identifier, top-level metadata, a
\* names entry with its metadata stamp, a photo, memberships.  Resource
\* names of people are numbers, 0 standing for the empty string.
Person(id, ms) ==
    [resourceName |-> id, metadata |-> TRUE,
     names |-> <<[value |-> id, metadata |-> TRUE]>>,
     photos |-> IF id % 2 = 0 THEN <<[url |-> id, metadata |-> TRUE]>> ELSE <<>>,
     memberships |-> ms]

(***************************************************************************)
(* internal/models: the archive                                            *)
(***************************************************************************)
BackupVersion == "1.0"

BackupFile(version, contacts, groups, contactCount, groupCount) ==
    [version |-> version, created_at |-> 1,
     contact_count |-> contactCount, group_count |-> groupCount,
     contacts |-> contacts, groups |-> groups]

\* the zero value a failed load leaves behind
NoBackup == BackupFile("", <<>>, <<>>, 0, 0)

\* LoadBackupFile(path), preceded by runRestore's os.Stat of the path.
\* f is the file at the path: whether it exists, can be read, parses as
\* JSON, and the document it decodes to.
LoadBackupFileMissingVersionAccepted(f) ==
    IF ~f.readable THEN [err |-> "failed to read backup file", backup |-> NoBackup]
    ELSE IF ~f.valid THEN [err |-> "failed to parse backup file", backup |-> NoBackup]
    ELSE [err |-> "", backup |-> f.doc]

LoadBackupFile(f) ==
    IF ~f.readable THEN [err |-> "failed to read backup file", backup |-> NoBackup]
    ELSE IF ~f.valid THEN [err |-> "failed to parse backup file", backup |-> NoBackup]
    ELSE IF f.doc.version = ""
         THEN [err |-> "invalid backup file: missing version", backup |-> NoBackup]
    ELSE [err |-> "", backup |-> f.doc]

\* a file on disk: whether it exists, can be read, whether what it holds
\* is complete (a whole JSON document, whole CSV rows), and its content
NoFile == [exists |-> FALSE, readable |-> FALSE, valid |-> FALSE, content |-> <<>>]

WrittenFile(content) ==
    [exists |-> TRUE, readable |-> TRUE, valid |-> TRUE, content |-> content]

\* what a write that failed half way leaves: a part of the content
PartialFile(content) ==
    [exists |-> TRUE, readable |-> TRUE, valid |-> FALSE, content |-> content]

\* csv.NewWriter(file): the rows buffered and not yet written to the file,
\* and whether a write to the file has failed
NoWriter == [buffered |-> <<>>, failed |-> FALSE]

IsUserGroup(g) == g.groupType = UserGroupType

\* BackupFile.GetUserGroups
GetUserGroups(b) == SelectSeq(b.groups, IsUserGroup)

(***************************************************************************)
(* internal/contacts: preparing a record for creation                      *)
(***************************************************************************)
\* the prefix test cleanContactForCreation uses to tell a user group
IsUserGroupName(rn) ==
    /\ HasPrefix(rn, "contactGroups/")
    /\ ~HasPrefix(rn, "contactGroups/myContacts")
    /\ ~HasPrefix(rn, "contactGroups/starred")
    /\ ~HasPrefix(rn, "contactGroups/chatBuddies")
    /\ ~HasPrefix(rn, "contactGroups/all")
    /\ ~HasPrefix(rn, "contactGroups/friends")
    /\ ~HasPrefix(rn, "contactGroups/family")
    /\ ~HasPrefix(rn, "contactGroups/coworkers")

KeptSystemGroupAny(old) == ~IsUserGroupName(old)

\* the one system group whose memberships are kept
KeptSystemGroup(old) == old = MyContacts

\* the membership loop of cleanContactForCreation; groupMap is a function
\* from old to new group resource names
RECURSIVE CleanMemberships(_, _)
CleanMemberships(ms, groupMap) ==
    IF ms = <<>> THEN <<>>
    ELSE LET m == Head(ms)
             old == m.contactGroupResourceName
             rest == CleanMemberships(Tail(ms), groupMap)
         IN  IF ~m.hasContactGroupMembership THEN rest
             ELSE IF IsUserGroupName(old)
                  THEN IF old \in DOMAIN groupMap
                       THEN <<[hasContactGroupMembership |-> TRUE,
                               contactGroupResourceName |-> groupMap[old],
                               metadata |-> FALSE]>> \o rest
                       ELSE rest
             ELSE IF KeptSystemGroup(old) THEN <<m>> \o rest
             ELSE rest

\* clearFieldMetadata on one field group
ClearMetadata(entries) ==
    [k \in DOMAIN entries |-> [entries[k] EXCEPT !.metadata = FALSE]]

\* cleanContactForCreation: the person handed to the create request
cleanContactForCreation(contact, groupMap) ==
    [resourceName |-> 0, metadata |-> FALSE,
     names |-> ClearMetadata(contact.names),
     photos |-> <<>>,
     memberships |-> CleanMemberships(contact.memberships, groupMap)]

\* what cleanContactForCreation leaves of its argument: the new person
\* shares the entries of every copied field group with the argument, so
\* clearFieldMetadata clears the argument's stamps as well
AfterClean(contact) == [contact EXCEPT !.names = ClearMetadata(contact.names)]

(***************************************************************************)
(* Batching (DeleteAllContacts, CreateContacts)                            *)
(***************************************************************************)
\* items[i:end] of the batch loop, i counting from 0
BatchEnd(i, size, n) == IF i + size > n THEN n ELSE i + size

BatchOneShort(items, i, size) ==
    SubSeq(items, i + 1, BatchEnd(i, size - 1, Len(items)))

Batch(items, i, size) == SubSeq(items, i + 1, BatchEnd(i, size, Len(items)))

\* the resource names DeleteAllContacts extracts
ResourceNames(contacts) ==
    LET named == SelectSeq(contacts, LAMBDA c : c.resourceName # 0)
    IN  [k \in DOMAIN named |-> named[k].resourceName]

(***************************************************************************)
(* cmd/restore.go: the answer to the confirmation prompt                   *)
(***************************************************************************)
\* The text read at the prompt and the value of --format are modelled as
\* Go holds them: the sequence of their runes, a rune being its code point.
\* The printable ASCII characters in code point order: U+0020 to U+005F,
\* and U+0061 to U+007E (a string of this module cannot hold U+0060)
PrintableLow ==
    " !\"#$%&'()*+,-./0123456789:;<=>?@ABCDEFGHIJKLMNOPQRSTUVWXYZ[\\]^_"

PrintableHigh == "abcdefghijklmnopqrstuvwxyz{|}~"

\* the code point of a character of a string written in this module
CodePoint(c) ==
    CASE c = "\t" -> 9 [] c = "\n" -> 10 [] c = "\f" -> 12 [] c = "\r" -> 13
      [] \E k \in 1..Len(PrintableLow) : SubSeq(PrintableLow, k, k) = c ->
           31 + (CHOOSE k \in 1..Len(PrintableLow) : SubSeq(PrintableLow, k, k) = c)
      [] OTHER ->
           96 + (CHOOSE k \in 1..Len(PrintableHigh) : SubSeq(PrintableHigh, k, k) = c)

\* the runes of the ASCII string s
Runes(s) == [k \in 1..Len(s) |-> CodePoint(SubSeq(s, k, k))]

\* unicode.IsSpace: \t, \n, \v, \f, \r, the blank, U+0085 (NEL), U+00A0
\* (NBSP), and above Latin-1 the code points of category Z and property
\* Pattern_White_Space: U+1680, U+2000..U+200A, U+2028, U+2029, U+202F,
\* U+205F, U+3000
IsSpace(r) ==
    \/ r \in 9..13
    \/ r \in {32, 133, 160, 5760, 8232, 8233, 8239, 8287, 12288}
    \/ r \in 8192..8202

\* unicode.ToLower, as the case tables of package unicode give it (the
\* simple lower-case mapping of the Unicode Character Database, here of
\* version 14.0): <<lo, hi, delta, stride>> says that every stride-th rune
\* from lo to hi has its lower-case letter delta above it
LowerRanges ==
    {<<65, 90, 32, 1>>, <<192, 214, 32, 1>>, <<216, 222, 32, 1>>,
     <<256, 302, 1, 2>>, <<304, 304, -199, 1>>, <<306, 310, 1, 2>>,
     <<313, 327, 1, 2>>, <<330, 374, 1, 2>>, <<376, 376, -121, 1>>,
     <<377, 381, 1, 2>>, <<385, 385, 210, 1>>, <<386, 388, 1, 2>>,
     <<390, 390, 206, 1>>, <<391, 391, 1, 1>>, <<393, 394, 205, 1>>,
     <<395, 395, 1, 1>>, <<398, 398, 79, 1>>, <<399, 399, 202, 1>>,
     <<400, 400, 203, 1>>, <<401, 401, 1, 1>>, <<403, 403, 205, 1>>,
     <<404, 404, 207, 1>>, <<406, 406, 211, 1>>, <<407, 407, 209, 1>>,
     <<408, 408, 1, 1>>, <<412, 412, 211, 1>>, <<413, 413, 213, 1>>,
     <<415, 415, 214, 1>>, <<416, 420, 1, 2>>, <<422, 422, 218, 1>>,
     <<423, 423, 1, 1>>, <<425, 425, 218, 1>>, <<428, 428, 1, 1>>,
     <<430, 430, 218, 1>>, <<431, 431, 1, 1>>, <<433, 434, 217, 1>>,
     <<435, 437, 1, 2>>, <<439, 439, 219, 1>>, <<440, 440, 1, 1>>,
     <<444, 444, 1, 1>>, <<452, 452, 2, 1>>, <<453, 453, 1, 1>>,
     <<455, 455, 2, 1>>, <<456, 456, 1, 1>>, <<458, 458, 2, 1>>,
     <<459, 475, 1, 2>>, <<478, 494, 1, 2>>, <<497, 497, 2, 1>>,
     <<498, 500, 1, 2>>, <<502, 502, -97, 1>>, <<503, 503, -56, 1>>,
     <<504, 542, 1, 2>>, <<544, 544, -130, 1>>, <<546, 562, 1, 2>>,
     <<570, 570, 10795, 1>>, <<571, 571, 1, 1>>, <<573, 573, -163, 1>>,
     <<574, 574, 10792, 1>>, <<577, 577, 1, 1>>, <<579, 579, -195, 1>>,
     <<580, 580, 69, 1>>, <<581, 581, 71, 1>>, <<582, 590, 1, 2>>,
     <<880, 882, 1, 2>>, <<886, 886, 1, 1>>, <<895, 895, 116, 1>>,
     <<902, 902, 38, 1>>, <<904, 906, 37, 1>>, <<908, 908, 64, 1>>,
     <<910, 911, 63, 1>>, <<913, 929, 32, 1>>, <<931, 939, 32, 1>>,
     <<975, 975, 8, 1>>, <<984, 1006, 1, 2>>, <<1012, 1012, -60, 1>>,
     <<1015, 1015, 1, 1>>, <<1017, 1017, -7, 1>>, <<1018, 1018, 1, 1>>,
     <<1021, 1023, -130, 1>>, <<1024, 1039, 80, 1>>, <<1040, 1071, 32, 1>>,
     <<1120, 1152, 1, 2>>, <<1162, 1214, 1, 2>>, <<1216, 1216, 15, 1>>,
     <<1217, 1229, 1, 2>>, <<1232, 1326, 1, 2>>, <<1329, 1366, 48, 1>>,
     <<4256, 4293, 7264, 1>>, <<4295, 4295, 7264, 1>>,
     <<4301, 4301, 7264, 1>>, <<5024, 5103, 38864, 1>>, <<5104, 5109, 8, 1>>,
     <<7312, 7354, -3008, 1>>, <<7357, 7359, -3008, 1>>,
     <<7680, 7828, 1, 2>>, <<7838, 7838, -7615, 1>>, <<7840, 7934, 1, 2>>,
     <<7944, 7951, -8, 1>>, <<7960, 7965, -8, 1>>, <<7976, 7983, -8, 1>>,
     <<7992, 7999, -8, 1>>, <<8008, 8013, -8, 1>>, <<8025, 8031, -8, 2>>,
     <<8040, 8047, -8, 1>>, <<8072, 8079, -8, 1>>, <<8088, 8095, -8, 1>>,
     <<8104, 8111, -8, 1>>, <<8120, 8121, -8, 1>>, <<8122, 8123, -74, 1>>,
     <<8124, 8124, -9, 1>>, <<8136, 8139, -86, 1>>, <<8140, 8140, -9, 1>>,
     <<8152, 8153, -8, 1>>, <<8154, 8155, -100, 1>>, <<8168, 8169, -8, 1>>,
     <<8170, 8171, -112, 1>>, <<8172, 8172, -7, 1>>, <<8184, 8185, -128, 1>>,
     <<8186, 8187, -126, 1>>, <<8188, 8188, -9, 1>>,
     <<8486, 8486, -7517, 1>>, <<8490, 8490, -8383, 1>>,
     <<8491, 8491, -8262, 1>>, <<8498, 8498, 28, 1>>, <<8544, 8559, 16, 1>>,
     <<8579, 8579, 1, 1>>, <<9398, 9423, 26, 1>>, <<11264, 11311, 48, 1>>,
     <<11360, 11360, 1, 1>>, <<11362, 11362, -10743, 1>>,
     <<11363, 11363, -3814, 1>>, <<11364, 11364, -10727, 1>>,
     <<11367, 11371, 1, 2>>, <<11373, 11373, -10780, 1>>,
     <<11374, 11374, -10749, 1>>, <<11375, 11375, -10783, 1>>,
     <<11376, 11376, -10782, 1>>, <<11378, 11378, 1, 1>>,
     <<11381, 11381, 1, 1>>, <<11390, 11391, -10815, 1>>,
     <<11392, 11490, 1, 2>>, <<11499, 11501, 1, 2>>, <<11506, 11506, 1, 1>>,
     <<42560, 42604, 1, 2>>, <<42624, 42650, 1, 2>>, <<42786, 42798, 1, 2>>,
     <<42802, 42862, 1, 2>>, <<42873, 42875, 1, 2>>,
     <<42877, 42877, -35332, 1>>, <<42878, 42886, 1, 2>>,
     <<42891, 42891, 1, 1>>, <<42893, 42893, -42280, 1>>,
     <<42896, 42898, 1, 2>>, <<42902, 42920, 1, 2>>,
     <<42922, 42922, -42308, 1>>, <<42923, 42923, -42319, 1>>,
     <<42924, 42924, -42315, 1>>, <<42925, 42925, -42305, 1>>,
     <<42926, 42926, -42308, 1>>, <<42928, 42928, -42258, 1>>,
     <<42929, 42929, -42282, 1>>, <<42930, 42930, -42261, 1>>,
     <<42931, 42931, 928, 1>>, <<42932, 42946, 1, 2>>,
     <<42948, 42948, -48, 1>>, <<42949, 42949, -42307, 1>>,
     <<42950, 42950, -35384, 1>>, <<42951, 42953, 1, 2>>,
     <<42960, 42960, 1, 1>>, <<42966, 42968, 1, 2>>, <<42997, 42997, 1, 1>>,
     <<65313, 65338, 32, 1>>, <<66560, 66599, 40, 1>>,
     <<66736, 66771, 40, 1>>, <<66928, 66938, 39, 1>>,
     <<66940, 66954, 39, 1>>, <<66956, 66962, 39, 1>>,
     <<66964, 66965, 39, 1>>, <<68736, 68786, 64, 1>>,
     <<71840, 71871, 32, 1>>, <<93760, 93791, 32, 1>>,
     <<125184, 125217, 34, 1>>}

\* unicode.ToLower: a rune of a range is moved by its delta, every other
\* rune stays
LowerChar(r) ==
    LET hit == {t \in LowerRanges : r >= t[1] /\ r <= t[2] /\ (r - t[1]) % t[4] = 0}
    IN  IF hit = {} THEN r ELSE r + (CHOOSE t \in hit : TRUE)[3]

\* strings.ToLower: rune by rune
ToLower(s) == [k \in 1..Len(s) |-> LowerChar(s[k])]

RECURSIVE TrimLeft(_)
TrimLeft(s) ==
    IF Len(s) > 0 /\ IsSpace(s[1]) THEN TrimLeft(SubSeq(s, 2, Len(s)))
    ELSE s

RECURSIVE TrimRight(_)
TrimRight(s) ==
    IF Len(s) > 0 /\ IsSpace(s[Len(s)])
    THEN TrimRight(SubSeq(s, 1, Len(s) - 1))
    ELSE s

\* strings.TrimSpace: the leading and the trailing white space is cut
TrimSpace(s) == TrimLeft(TrimRight(s))

\* response = strings.TrimSpace(strings.ToLower(response))
NormalizeResponse(r) == TrimSpace(ToLower(r))

AcceptedAnyAnswer(r) == TRUE

AcceptedByFirstLetter(r) == HasPrefix(NormalizeResponse(r), Runes("y"))

\* the test of restore.go line 108, negated: the run goes on
Accepted(r) == NormalizeResponse(r) = Runes("yes") \/ NormalizeResponse(r) = Runes("y")

\* lines a user may type at the prompt; the first begins with a no-break
\* space and ends with an ideographic space before the line's end, the last
\* begins with the fullwidth capital Y (U+FF39), whose lower-case letter
\* U+FF59 is not the letter y
Responses ==
    {<<160>> \o Runes("YES") \o <<12288, 10>>, Runes("y\r\n"), Runes("no\n"),
     Runes("\n"), Runes("yes please\n"), Runes("ye s\n"),
     <<65337>> \o Runes("es\n")}

(***************************************************************************)
(* The remote directory: pages, cursors, identifiers                       *)
(***************************************************************************)
\* s cut into pages of at most p items; a listing has at least one page
Chunks(s, p) ==
    LET n == Len(s)
        np == IF n = 0 THEN 1 ELSE (n + p - 1) \div p
    IN  [k \in 1..np |-> SubSeq(s, (k - 1) * p + 1, Min(k * p, n))]

\* the page sequences the service may serve for a listing of s when asked
\* for pageSize items a page: pages of at most a service-chosen limit,
\* possibly followed by an empty last page
Layouts(s, pageSize, limits) ==
    { Chunks(s, Min(l, pageSize)) \o last : l \in limits, last \in {<<>>, << <<>> >>} }

\* the response to a request carrying pageToken (0: none): the page's items
\* and NextPageToken (0: none)
ServePage(pages, token) ==
    [items |-> pages[token + 1],
     next |-> IF token + 1 < Len(pages) THEN token + 1 ELSE 0]

\* the resource name the service gives the k-th group it creates
NewGroupName(k) == "contactGroups/n" \o Digits[k]

(***************************************************************************)
(* Inputs of a run                                                         *)
(***************************************************************************)
ArchiveGroups ==
    << Group(MyContacts, "My Contacts", SystemGroupType),
       Group("contactGroups/a1", "Work", UserGroupType),
       Group("contactGroups/starred", "Starred", SystemGroupType),
       Group("contactGroups/a2", "Home", UserGroupType) >>

\* the memberships of the archive's records, by position
ArchiveMemberships(k) ==
    CASE k % 4 = 1 -> <<Member("contactGroups/a1"), Member(MyContacts)>>
      [] k % 4 = 2 -> <<Member(MyContacts), Member("contactGroups/starred"),
                        Member("contactGroups/a2")>>
      [] k % 4 = 3 -> <<DomainMember, Member("contactGroups/gone")>>
      [] OTHER -> <<>>

ArchiveContacts(n) == [k \in 1..n |-> Person(k, ArchiveMemberships(k))]

ArchiveSizes == {0, 1, batchCreateSize, MaxArchive}

ArchiveDocs ==
    { BackupFile(v, ArchiveContacts(n), gs, n, Len(gs)) :
        v \in {"", BackupVersion}, n \in ArchiveSizes, gs \in {<<>>, ArchiveGroups} }

InputFiles ==
    { [exists |-> FALSE, readable |-> FALSE, valid |-> FALSE, doc |-> NoBackup],
      [exists |-> TRUE, readable |-> FALSE, valid |-> FALSE, doc |-> NoBackup],
      [exists |-> TRUE, readable |-> TRUE, valid |-> FALSE, doc |-> NoBackup] }
    \cup { [exists |-> TRUE, readable |-> TRUE, valid |-> TRUE, doc |-> d] :
             d \in ArchiveDocs }

RemoteSystemGroups ==
    << Group(MyContacts, "My Contacts", SystemGroupType),
       Group("contactGroups/starred", "Starred", SystemGroupType) >>

RemoteUserGroups ==
    << Group("contactGroups/r1", "Old", UserGroupType),
       Group("contactGroups/r2", "Work", UserGroupType) >>

RemoteGroupLists ==
    { RemoteSystemGroups,
      <<RemoteSystemGroups[1], RemoteUserGroups[1], RemoteSystemGroups[2],
        RemoteUserGroups[2]>> }

RemoteContacts(n) ==
    [k \in 1..n |-> Person(k, IF k % 2 = 0 THEN <<Member(MyContacts)>>
                              ELSE <<Member(MyContacts), Member("contactGroups/r1")>>)]

RemoteSizes == {0, 1, batchDeleteSize, MaxRemote}

(***************************************************************************)
(* State                                                                   *)
(***************************************************************************)
VARIABLES
    inputFile,      \* the file at the --input path
    credsExist,     \* whether the credentials file exists
    skipConfirm,    \* the --confirm flag
    dirContacts,    \* the remote directory's people, in listing order
    dirGroups,      \* the remote directory's contact groups, in listing order
    nextId,         \* the next person identifier the service assigns
    nextGroup,      \* the number of groups the service has created
    pc,             \* the position of runRestore
    err,            \* the error runRestore returned ("": none)
    backup,         \* runRestore's backup
    log,            \* the steps taken and requests issued, in order
    reports,        \* the calls of the progress callbacks, in order
    srvPages,       \* the pages the service serves for the listing under way
    pageToken,      \* ListContacts / ListGroups: pageToken
    allContacts,    \* ListContacts: allContacts; DeleteAllContacts: contacts
    allGroups,      \* ListGroups: allGroups; DeleteUserGroups: groups
    resourceNames,  \* DeleteAllContacts: resourceNames
    userGroups,     \* DeleteUserGroups / runRestore: userGroups
    i,              \* the loop position (batch offset, or groups handled)
    count,          \* deleted / created
    total,          \* totalContacts / totalGroups
    groupMap,       \* CreateGroups: resourceNameMap; runRestore: groupMap
    initial,        \* the remote directory before the run: the number of
                    \* its people and its groups (never changes)
    call,           \* a function called on its own: its name, arguments
                    \* and, once it returned, its results
    outputFormat,   \* the --format flag of backup
    outputFile,     \* the file at the --output path of backup
    writer,         \* SaveToCSV: writer
    slept           \* the positions in log of the requests after which
                    \* time.Sleep(rateLimitDelay) ran

\* what a backup run writes
output == <<outputFormat, outputFile, writer>>

\* what a restore run reads and never changes, and what it never touches
inputs == <<inputFile, credsExist, skipConfirm, initial, call, output>>

remote == <<dirContacts, dirGroups, nextId, nextGroup>>

listing == <<srvPages, pageToken, allContacts, allGroups>>

locals == <<resourceNames, userGroups, i, count, total>>

vars ==
    <<inputs, remote, pc, err, backup, log, reports, listing, locals, groupMap, slept>>

EmptyMap == [g \in {} |-> ""]

\* no function is called on its own
NoCall == [fn |-> ""]

\* no backup run is under way
NoOutput ==
    /\ outputFormat = Runes("json")
    /\ outputFile = NoFile
    /\ writer = NoWriter

Init ==
    /\ call = NoCall
    /\ NoOutput
    /\ inputFile \in InputFiles
    /\ credsExist \in BOOLEAN
    /\ skipConfirm \in BOOLEAN
    /\ dirContacts \in {RemoteContacts(n) : n \in RemoteSizes}
    /\ dirGroups \in RemoteGroupLists
    /\ initial = [contacts |-> Len(dirContacts), groups |-> dirGroups]
    /\ nextId = Len(dirContacts) + 1
    /\ nextGroup = 0
    /\ pc = "load"
    /\ err = ""
    /\ backup = NoBackup
    /\ log = <<>>
    /\ reports = <<>>
    /\ srvPages = <<>>
    /\ pageToken = 0
    /\ allContacts = <<>>
    /\ allGroups = <<>>
    /\ resourceNames = <<>>
    /\ userGroups = <<>>
    /\ i = 0
    /\ count = 0
    /\ total = 0
    /\ groupMap = EmptyMap
    /\ slept = {}

(***************************************************************************)
(* Steps of runRestore                                                     *)
(***************************************************************************)
Entry(op, arg, ok) == [op |-> op, arg |-> arg, ok |-> ok]

ReportSwapped(op, cur, tot) == [op |-> op, cur |-> tot, total |-> cur]

\* progressFn(current, total), called by the operation op
Report(op, cur, tot) == [op |-> op, cur |-> cur, total |-> tot]

NoListing ==
    /\ srvPages' = <<>>
    /\ pageToken' = 0
    /\ allContacts' = <<>>
    /\ allGroups' = <<>>

NoLocals ==
    /\ resourceNames' = <<>>
    /\ userGroups' = <<>>
    /\ i' = 0
    /\ count' = 0
    /\ total' = 0

\* runRestore returns e ("": nil)
Return(e) ==
    /\ pc' = "exit"
    /\ err' = e
    /\ NoListing
    /\ NoLocals

\* restore.go 68-78: os.Stat of the input path, then LoadBackupFile
LoadBackup ==
    /\ pc = "load"
    /\ LET r == LoadBackupFile(inputFile)
           e == IF ~inputFile.exists THEN "backup file not found"
                ELSE IF r.err # "" THEN "failed to load backup"
                ELSE ""
       IN  /\ log' = Append(log, Entry("load", 0, e = ""))
           /\ IF e # ""
              THEN Return(e) /\ UNCHANGED backup
              ELSE /\ backup' = r.backup
                   /\ pc' = "credentials"
                   /\ UNCHANGED <<err, listing, locals>>
    /\ UNCHANGED <<inputs, remote, reports, groupMap>>
    /\ UNCHANGED slept

\* restore.go 88-91: the credentials file must exist
CheckCredentials ==
    /\ pc = "credentials"
    /\ IF ~credsExist
       THEN Return("credentials file not found")
       ELSE pc' = "confirm" /\ UNCHANGED <<err, listing, locals>>
    /\ UNCHANGED <<inputs, remote, backup, log, reports, groupMap>>
    /\ UNCHANGED slept

\* restore.go 93-113: the confirmation prompt.  The answer is a line the
\* user typed, or the read fails (line = FALSE: end of input before the
\* line's end).
Confirm ==
    /\ pc = "confirm"
    /\ IF skipConfirm
       THEN /\ pc' = "auth"
            /\ UNCHANGED <<err, listing, locals, log>>
       ELSE \E line \in BOOLEAN, response \in Responses :
              IF ~line
              THEN /\ Return("failed to read response")
                   /\ log' = Append(log, Entry("readFailed", "", FALSE))
              ELSE /\ log' = Append(log, Entry("confirm", response, Accepted(response)))
                   /\ IF Accepted(response)
                      THEN pc' = "auth" /\ UNCHANGED <<err, listing, locals>>
                      ELSE Return("")
    /\ UNCHANGED <<inputs, remote, backup, reports, groupMap>>
    /\ UNCHANGED slept

\* restore.go 115-122: authenticator.GetClient succeeds or fails
Authenticate ==
    /\ pc = "auth"
    /\ \E ok \in BOOLEAN :
         /\ log' = Append(log, Entry("auth", 0, ok))
         /\ IF ok
            THEN pc' = "client" /\ UNCHANGED <<err, listing, locals>>
            ELSE Return("authentication failed")
    /\ UNCHANGED <<inputs, remote, backup, reports, groupMap>>
    /\ UNCHANGED slept

\* restore.go 127-131: contacts.NewClient succeeds or fails
NewClient ==
    /\ pc = "client"
    /\ \E ok \in BOOLEAN :
         IF ok
         THEN pc' = "DeleteAllContacts.list" /\ UNCHANGED <<err, listing, locals>>
         ELSE Return("failed to create contacts client")
    /\ UNCHANGED <<inputs, remote, backup, log, reports, groupMap>>
    /\ UNCHANGED slept

(***************************************************************************)
(* Step 1: Client.DeleteAllContacts                                        *)
(***************************************************************************)
\* the error checks after a request (`if err != nil`): ok is whether the
\* request succeeded
ListFailedIgnored(ok) == FALSE

ListFailed(ok) == ~ok

BatchDeleteFailedIgnored(ok) == FALSE

BatchDeleteFailed(ok) == ~ok

GroupCreateFailedIgnored(ok) == FALSE

GroupCreateFailed(ok) == ~ok

BatchCreateFailedIgnored(ok) == FALSE

BatchCreateFailed(ok) == ~ok

\* allContacts = append(allContacts, resp.Connections...), and the same
\* for groups
AppendPageOverwriting(all, items) == items

AppendPage(all, items) == all \o items

\* the loop goes on while the response carries a page token
MorePagesNever(next) == FALSE

MorePages(next) == next # 0

ContactLayouts == Layouts(dirContacts, maxPageSize, {SmallContactPage, maxPageSize})

GroupLayouts == Layouts(dirGroups, 1000, {SmallGroupPage, 1000})

\* the pages of the listing under way: chosen by the service at the first
\* request, fixed from then on
PagesFor(layouts) == IF srvPages = <<>> THEN layouts ELSE {srvPages}

\* ListContacts 54-86, called from DeleteAllContacts 127-130 with no
\* progress callback: one page request
DeleteAllContacts_List ==
    /\ pc = "DeleteAllContacts.list"
    /\ \E pages \in PagesFor(ContactLayouts), ok \in BOOLEAN :
         LET resp == ServePage(pages, pageToken)
         IN  /\ log' = Append(log, Entry("listContacts", pageToken, ok))
             /\ slept' = IF ~ListFailed(ok) /\ MorePages(resp.next)
                         THEN slept \cup {Len(log) + 1} ELSE slept
             /\ IF ListFailed(ok)
                THEN Return("failed to delete contacts")
                ELSE /\ srvPages' = pages
                     /\ allContacts' = AppendPage(allContacts, resp.items)
                     /\ pageToken' = resp.next
                     /\ pc' = IF MorePages(resp.next) THEN "DeleteAllContacts.list"
                              ELSE "DeleteAllContacts.extract"
                     /\ UNCHANGED <<err, allGroups, locals>>
    /\ UNCHANGED <<inputs, remote, backup, reports, groupMap>>

\* DeleteAllContacts 132-147: nothing to delete, or the resource names
DeleteAllContacts_Extract ==
    /\ pc = "DeleteAllContacts.extract"
    /\ NoListing
    /\ LET names == ResourceNames(allContacts)
       IN  IF Len(allContacts) = 0 \/ Len(names) = 0
           THEN /\ pc' = "DeleteUserGroups.list"
                /\ NoLocals
           ELSE /\ pc' = "DeleteAllContacts.batch"
                /\ resourceNames' = names
                /\ total' = Len(allContacts)
                /\ count' = 0
                /\ i' = 0
                /\ UNCHANGED userGroups
    /\ UNCHANGED <<inputs, remote, err, backup, log, reports, groupMap>>
    /\ UNCHANGED slept

\* what a successful BatchDeleteContacts leaves of the directory
WithoutContacts(dir, batch) ==
    SelectSeq(dir, LAMBDA c : c.resourceName \notin Range(batch))

\* DeleteAllContacts 148-171: one batch
DeleteAllContacts_Batch ==
    /\ pc = "DeleteAllContacts.batch"
    /\ \E ok \in BOOLEAN :
         LET batch == Batch(resourceNames, i, batchDeleteSize)
         IN  /\ log' = Append(log, Entry("batchDelete", batch, ok))
             /\ slept' = IF ~BatchDeleteFailed(ok)
                         THEN slept \cup {Len(log) + 1} ELSE slept
             /\ dirContacts' = IF ok THEN WithoutContacts(dirContacts, batch)
                               ELSE dirContacts
             /\ IF BatchDeleteFailed(ok)
                THEN /\ Return("failed to delete contacts")
                     /\ UNCHANGED reports
                ELSE /\ reports' = Append(reports,
                            Report("DeleteAllContacts", count + Len(batch), total))
                     /\ UNCHANGED <<err, listing>>
                     /\ IF i + batchDeleteSize < Len(resourceNames)
                        THEN /\ i' = i + batchDeleteSize
                             /\ count' = count + Len(batch)
                             /\ UNCHANGED <<pc, resourceNames, userGroups, total>>
                        ELSE /\ pc' = "DeleteUserGroups.list"
                             /\ NoLocals
    /\ UNCHANGED <<inputs, dirGroups, nextId, nextGroup, backup, groupMap>>

(***************************************************************************)
(* Step 2: Client.DeleteUserGroups                                         *)
(***************************************************************************)
\* ListGroups 96-118, called from DeleteUserGroups 179-182: one page request
DeleteUserGroups_List ==
    /\ pc = "DeleteUserGroups.list"
    /\ \E pages \in PagesFor(GroupLayouts), ok \in BOOLEAN :
         LET resp == ServePage(pages, pageToken)
         IN  /\ log' = Append(log, Entry("listGroups", pageToken, ok))
             /\ slept' = IF ~ListFailed(ok) /\ MorePages(resp.next)
                         THEN slept \cup {Len(log) + 1} ELSE slept
             /\ IF ListFailed(ok)
                THEN Return("failed to delete groups")
                ELSE /\ srvPages' = pages
                     /\ allGroups' = AppendPage(allGroups, resp.items)
                     /\ pageToken' = resp.next
                     /\ pc' = IF MorePages(resp.next) THEN "DeleteUserGroups.list"
                              ELSE "DeleteUserGroups.filter"
                     /\ UNCHANGED <<err, allContacts, locals>>
    /\ UNCHANGED <<inputs, remote, backup, reports, groupMap>>

\* the groups DeleteUserGroups keeps for deletion (184-190)
DeletableAll(groups) == groups

Deletable(groups) == SelectSeq(groups, IsUserGroup)

\* the first position after k of a group CreateGroups does not skip
\* (229-233), 0 if there is none
NextCreatable(groups, k) ==
    LET later == {j \in (k + 1)..Len(groups) : IsUserGroup(groups[j])}
    IN  IF later = {} THEN 0 ELSE CHOOSE j \in later : \A l \in later : j <= l

\* restore.go 203-207 and 235-236, and CreateGroups 225-233 up to its first
\* request: where runRestore goes once step 2 is over
EnterCreateGroups ==
    LET groups == GetUserGroups(backup)
        first == NextCreatable(groups, 0)
    IN  /\ groupMap' = EmptyMap
        /\ resourceNames' = <<>>
        /\ count' = 0
        /\ IF Len(groups) > 0 /\ first # 0
           THEN /\ pc' = "CreateGroups.create"
                /\ userGroups' = groups
                /\ total' = Len(groups)
                /\ i' = first
                /\ err' = err
           ELSE /\ userGroups' = <<>>
                /\ i' = 0
                /\ IF Len(backup.contacts) > 0
                   THEN /\ pc' = "CreateContacts.batch"
                        /\ total' = Len(backup.contacts)
                        /\ err' = err
                   ELSE /\ pc' = "exit"
                        /\ total' = 0
                        /\ err' = ""

\* DeleteUserGroups 184-197: the user-created groups, or nothing to delete
DeleteUserGroups_Filter ==
    /\ pc = "DeleteUserGroups.filter"
    /\ NoListing
    /\ LET found == Deletable(allGroups)
       IN  IF Len(found) = 0
           THEN EnterCreateGroups
           ELSE /\ pc' = "DeleteUserGroups.delete"
                /\ userGroups' = found
                /\ total' = Len(found)
                /\ count' = 0
                /\ i' = 0
                /\ UNCHANGED <<err, resourceNames, groupMap>>
    /\ UNCHANGED <<inputs, remote, backup, log, reports>>
    /\ UNCHANGED slept

WithoutGroup(dir, rn) == SelectSeq(dir, LAMBDA g : g.resourceName # rn)

\* the deleted count after a request (205-210)
DeletedAfterAlways(n, ok) == n + 1

DeletedAfter(n, ok) == IF ok THEN n + 1 ELSE n

\* DeleteUserGroups 199-217: one delete request; a failure is only logged
DeleteUserGroups_Delete ==
    /\ pc = "DeleteUserGroups.delete"
    /\ \E ok \in BOOLEAN :
         LET group == userGroups[i + 1]
             deleted == DeletedAfter(count, ok)
         IN  /\ log' = Append(log, Entry("deleteGroup", group, ok))
             /\ slept' = slept \cup {Len(log) + 1}
             /\ dirGroups' = IF ok THEN WithoutGroup(dirGroups, group.resourceName)
                             ELSE dirGroups
             /\ reports' = Append(reports, Report("DeleteUserGroups", deleted, total))
             /\ IF i + 1 < Len(userGroups)
                THEN /\ i' = i + 1
                     /\ count' = deleted
                     /\ UNCHANGED <<pc, err, resourceNames, userGroups, total, groupMap>>
                ELSE EnterCreateGroups
    /\ UNCHANGED <<inputs, dirContacts, nextId, nextGroup, backup, listing>>

(***************************************************************************)
(* Step 3: Client.CreateGroups                                             *)
(***************************************************************************)
MapPutSwapped(m, old, new) ==
    [k \in DOMAIN m \cup {new} |-> IF k = new THEN old ELSE m[k]]

\* resourceNameMap[old] = new
MapPut(m, old, new) ==
    [k \in DOMAIN m \cup {old} |-> IF k = old THEN new ELSE m[k]]

\* restore.go 235-236: step 4, or the end of the run
EnterCreateContacts ==
    /\ resourceNames' = <<>>
    /\ userGroups' = <<>>
    /\ i' = 0
    /\ count' = 0
    /\ IF Len(backup.contacts) > 0
       THEN /\ pc' = "CreateContacts.batch"
            /\ total' = Len(backup.contacts)
            /\ err' = err
       ELSE /\ pc' = "exit"
            /\ total' = 0
            /\ err' = ""

\* CreateGroups 229-255: one create request; the first failure ends the run
CreateGroups_Create ==
    /\ pc = "CreateGroups.create"
    /\ \E ok \in BOOLEAN :
         LET group == userGroups[i]
             name == NewGroupName(nextGroup + 1)
             next == NextCreatable(userGroups, i)
         IN  /\ log' = Append(log, Entry("createGroup", group, ok))
             /\ slept' = IF ~GroupCreateFailed(ok)
                         THEN slept \cup {Len(log) + 1} ELSE slept
             /\ nextGroup' = IF ok THEN nextGroup + 1 ELSE nextGroup
             /\ dirGroups' = IF ok
                             THEN Append(dirGroups, Group(name, group.name, UserGroupType))
                             ELSE dirGroups
             /\ IF GroupCreateFailed(ok)
                THEN /\ Return("failed to create groups")
                     /\ groupMap' = EmptyMap
                     /\ UNCHANGED reports
                ELSE /\ groupMap' = MapPut(groupMap, group.resourceName, name)
                     /\ reports' = Append(reports, Report("CreateGroups", count + 1, total))
                     /\ UNCHANGED listing
                     /\ IF next # 0
                        THEN /\ i' = next
                             /\ count' = count + 1
                             /\ UNCHANGED <<pc, err, resourceNames, userGroups, total>>
                        ELSE EnterCreateContacts
    /\ UNCHANGED <<inputs, dirContacts, nextId, backup>>

(***************************************************************************)
(* Step 4: Client.CreateContacts                                           *)
(***************************************************************************)
\* the people a successful BatchCreateContacts adds to the directory
Created(people, first) ==
    [k \in DOMAIN people |->
        [people[k] EXCEPT !.resourceName = first + k - 1, !.metadata = TRUE]]

\* the archive's records once those of positions lo..hi went through
\* cleanContactForCreation
CleanedInPlace(contacts, lo, hi) ==
    [k \in DOMAIN contacts |->
        IF lo <= k /\ k <= hi THEN AfterClean(contacts[k]) ELSE contacts[k]]

\* CreateContacts 271-306: one batch; a failure ends the run
CreateContacts_Batch ==
    /\ pc = "CreateContacts.batch"
    /\ \E ok \in BOOLEAN :
         LET batch == Batch(backup.contacts, i, batchCreateSize)
             contactsToCreate ==
                 [k \in DOMAIN batch |-> cleanContactForCreation(batch[k], groupMap)]
         IN  /\ log' = Append(log, Entry("batchCreate", contactsToCreate, ok))
             /\ slept' = IF ~BatchCreateFailed(ok)
                         THEN slept \cup {Len(log) + 1} ELSE slept
             /\ backup' = [backup EXCEPT !.contacts =
                    CleanedInPlace(backup.contacts, i + 1, i + Len(batch))]
             /\ dirContacts' = IF ok THEN dirContacts \o Created(contactsToCreate, nextId)
                               ELSE dirContacts
             /\ nextId' = IF ok THEN nextId + Len(batch) ELSE nextId
             /\ IF BatchCreateFailed(ok)
                THEN /\ Return("failed to create contacts")
                     /\ UNCHANGED reports
                ELSE /\ reports' = Append(reports,
                            Report("CreateContacts", count + Len(batch), total))
                     /\ IF i + batchCreateSize < Len(backup.contacts)
                        THEN /\ i' = i + batchCreateSize
                             /\ count' = count + Len(batch)
                             /\ UNCHANGED <<pc, err, listing, resourceNames, userGroups, total>>
                        ELSE Return("")
    /\ UNCHANGED <<inputs, dirGroups, nextGroup, groupMap>>

(***************************************************************************)
(* The restore run                                                         *)
(***************************************************************************)
Next ==
    \/ LoadBackup
    \/ CheckCredentials
    \/ Confirm
    \/ Authenticate
    \/ NewClient
    \/ DeleteAllContacts_List
    \/ DeleteAllContacts_Extract
    \/ DeleteAllContacts_Batch
    \/ DeleteUserGroups_List
    \/ DeleteUserGroups_Filter
    \/ DeleteUserGroups_Delete
    \/ CreateGroups_Create
    \/ CreateContacts_Batch

Spec == Init /\ [][Next]_vars

(***************************************************************************)
(* Properties of the restore run                                           *)
(***************************************************************************)
RequestOps ==
    {"listContacts", "batchDelete", "listGroups", "deleteGroup", "createGroup",
     "batchCreate"}

MutationOps == {"batchDelete", "deleteGroup", "createGroup", "batchCreate"}

\* the step of runRestore (1..4) a request belongs to
StepOf(op) ==
    CASE op \in {"listContacts", "batchDelete"} -> 1
      [] op \in {"listGroups", "deleteGroup"} -> 2
      [] op = "createGroup" -> 3
      [] op = "batchCreate" -> 4
      [] OTHER -> 0

\* the positions of the log holding an entry of one of the given kinds
At(ops) == {k \in DOMAIN log : log[k].op \in ops}

\* the entries of the given kind, in order
Entries(op) == SelectSeq(log, LAMBDA e : e.op = op)

Last(s) == s[Len(s)]

\* C1: the requests of a restore run are issued in the order of the four
\* steps (delete records, delete user groups, create groups, create
\* records), and a failed request other than a group deletion is the last
\* request of the run, which then has ended with an error.
C1_StepsInOrderStopOnError ==
    /\ \A j \in At(RequestOps), k \in At(RequestOps) :
         j < k => StepOf(log[j].op) <= StepOf(log[k].op)
    /\ \A j \in At(RequestOps) :
         (~log[j].ok /\ log[j].op # "deleteGroup")
            => (j = Len(log) /\ pc = "exit" /\ err # "")

\* a run that went through the four steps, lost a group deletion on the
\* way, and ended on a failed create batch
C1_Witness ==
    /\ pc = "exit"
    /\ err = "failed to create contacts"
    /\ Last(log).op = "batchCreate" /\ ~Last(log).ok
    /\ \E k \in At({"deleteGroup"}) : ~log[k].ok
    /\ At({"batchDelete"}) # {}
    /\ At({"createGroup"}) # {}
    /\ Len(Entries("batchCreate")) = 2

\* the input file cannot be restored from
BadInputFile ==
    \/ ~inputFile.exists
    \/ ~inputFile.readable
    \/ ~inputFile.valid
    \/ inputFile.doc.version = ""

\* C2: when the archive file is missing, unreadable, unparseable or has an
\* empty version, LoadBackupFile returns an error and the run ends at the
\* load step with an error: no authentication, no request.
C2_BadArchiveStopsBeforeAuth ==
    BadInputFile =>
        /\ LoadBackupFile(inputFile).err # ""
        /\ pc \in {"load", "exit"}
        /\ pc = "exit" => err \in {"backup file not found", "failed to load backup"}
        /\ At({"auth", "confirm"} \cup RequestOps) = {}
        /\ backup = NoBackup

\* a run over a parseable archive of 201 records without version has ended
C2_Witness ==
    /\ pc = "exit"
    /\ inputFile.valid
    /\ inputFile.doc.version = ""
    /\ Len(inputFile.doc.contacts) = MaxArchive
    /\ err = "failed to load backup"

\* the run got past the confirmation and ended with no error, and no
\* request failed on the way
RunSucceeded ==
    /\ pc = "exit"
    /\ err = ""
    /\ At({"auth"}) # {}
    /\ \A k \in At(RequestOps) : log[k].ok

UserGroupsOf(groups) == SelectSeq(groups, LAMBDA g : g.groupType = UserGroupType)

NamesOf(groups) == [k \in DOMAIN groups |-> groups[k].name]

\* C3: after a restore run in which every step and every group deletion
\* succeeded, the directory holds no record and no user group it held
\* before the run, as many records as the archive, and one user group per
\* user group of the archive (same names, same order).
C3_SuccessfulRestoreReplacesDirectory ==
    RunSucceeded =>
        /\ \A k \in DOMAIN dirContacts :
             dirContacts[k].resourceName \notin 1..initial.contacts
        /\ \A k \in DOMAIN dirGroups : \A j \in DOMAIN initial.groups :
             (dirGroups[k].groupType = UserGroupType)
                => dirGroups[k].resourceName # initial.groups[j].resourceName
        /\ Len(dirContacts) = Len(inputFile.doc.contacts)
        /\ NamesOf(UserGroupsOf(dirGroups)) = NamesOf(UserGroupsOf(inputFile.doc.groups))

\* a successful run that replaced 501 records and two user groups by 201
\* records and two user groups
C3_Witness ==
    /\ RunSucceeded
    /\ initial.contacts = MaxRemote
    /\ Len(UserGroupsOf(initial.groups)) = 2
    /\ Len(dirContacts) = MaxArchive
    /\ Len(UserGroupsOf(dirGroups)) = 2

\* C4: when the prompt is shown and the answer, trimmed and lower-cased,
\* is neither "yes" nor "y", the run ends there with no error; it issues no
\* delete and no create request and the directory is as it was.
C4_DeclinedRestoreMutatesNothing ==
    \A k \in At({"confirm"}) :
        (~skipConfirm /\ NormalizeResponse(log[k].arg) \notin {Runes("yes"), Runes("y")})
            => /\ k = Len(log)
               /\ pc = "exit"
               /\ err = ""
               /\ At(MutationOps) = {}
               /\ dirContacts = RemoteContacts(initial.contacts)
               /\ dirGroups = initial.groups

\* the user answered "yes please" over a directory of 501 records
C4_Witness ==
    /\ pc = "exit"
    /\ log # <<>>
    /\ Last(log).op = "confirm"
    /\ Last(log).arg = Runes("yes please\n")
    /\ initial.contacts = MaxRemote

\* C5 as claimed: authentication follows the load and precedes the
\* confirmation, which precedes the first delete request.
C5_AuthBeforeConfirm ==
    /\ \A a \in At({"auth"}) : \E l \in At({"load"}) : l < a /\ log[l].ok
    /\ \A c \in At({"confirm", "readFailed"}) : \E a \in At({"auth"}) : a < c
    /\ \A d \in At({"batchDelete", "deleteGroup"}) :
         skipConfirm \/ \E c \in At({"confirm"}) : c < d

\* C5, amended: the confirmation (unless suppressed) follows the load of a
\* valid archive and precedes authentication, an affirmative answer having
\* been given; authentication precedes every request to the directory.
C5_ConfirmBeforeAuth ==
    /\ \A c \in At({"confirm", "readFailed"}) :
         /\ ~skipConfirm
         /\ \E l \in At({"load"}) : l < c /\ log[l].ok
         /\ inputFile.valid /\ inputFile.doc.version # ""
    /\ \A a \in At({"auth"}) :
         /\ \E l \in At({"load"}) : l < a /\ log[l].ok
         /\ skipConfirm \/ \E c \in At({"confirm"}) :
              c < a /\ NormalizeResponse(log[c].arg) \in {Runes("yes"), Runes("y")}
    /\ \A r \in At(RequestOps) : \E a \in At({"auth"}) : a < r /\ log[a].ok

\* the user confirmed, authentication succeeded, and records were deleted
C5_Witness ==
    /\ ~skipConfirm
    /\ \E c \in At({"confirm"}), a \in At({"auth"}), d \in At({"batchDelete"}) :
         c < a /\ a < d /\ log[d].ok

\* C6: every group deletion and every group creation the run requests is
\* for a group of type USER_CONTACT_GROUP.
C6_OnlyUserGroupsMutated ==
    \A k \in At({"deleteGroup", "createGroup"}) : log[k].arg.groupType = UserGroupType

\* groups were deleted from a directory and created from an archive that
\* both hold system groups
C6_Witness ==
    /\ At({"deleteGroup"}) # {}
    /\ At({"createGroup"}) # {}
    /\ \E k \in DOMAIN initial.groups : initial.groups[k].groupType = SystemGroupType
    /\ \E k \in DOMAIN inputFile.doc.groups :
         inputFile.doc.groups[k].groupType = SystemGroupType

\* the last n entries of the log are the successful requests of kind op for
\* the first n pages, in cursor order, no other request of that kind was
\* issued, and all is the concatenation of those pages
ListedInOrder(op, all, n) ==
    /\ n <= Len(log)
    /\ \A t \in 1..n :
         LET e == log[Len(log) - n + t]
         IN  e.op = op /\ e.arg = t - 1 /\ e.ok
    /\ Cardinality(At({op})) = n
    /\ all = Flatten(SubSeq(srvPages, 1, n))

\* C7: ListContacts and ListGroups request every page the service serves
\* exactly once, in cursor order, and return the concatenation of the
\* pages' items, which is the directory's listing; an empty last page
\* ends the loop like any other.
C7_PaginationConcatenatesPages ==
    /\ (pc = "DeleteAllContacts.list" /\ srvPages # <<>>)
          => ListedInOrder("listContacts", allContacts, pageToken)
    /\ pc = "DeleteAllContacts.extract"
          => /\ ListedInOrder("listContacts", allContacts, Len(srvPages))
             /\ allContacts = dirContacts
    /\ (pc = "DeleteUserGroups.list" /\ srvPages # <<>>)
          => ListedInOrder("listGroups", allGroups, pageToken)
    /\ pc = "DeleteUserGroups.filter"
          => /\ ListedInOrder("listGroups", allGroups, Len(srvPages))
             /\ allGroups = dirGroups

\* ListContacts has returned 501 records served as two pages and an empty
\* last page
C7_Witness ==
    /\ pc = "DeleteAllContacts.extract"
    /\ Len(srvPages) = 3
    /\ Last(srvPages) = <<>>
    /\ Len(srvPages[1]) > 0 /\ Len(srvPages[2]) > 0
    /\ Len(allContacts) = MaxRemote

Ceil(n, b) == (n + b - 1) \div b

\* the payloads of the requests of the given kind, in issue order
Payloads(op) == [k \in DOMAIN Entries(op) |-> Entries(op)[k].arg]

\* step 1 is over and returned no error
DeleteAllContactsSucceeded ==
    \/ pc \in {"DeleteUserGroups.list", "DeleteUserGroups.filter",
               "DeleteUserGroups.delete", "CreateGroups.create", "CreateContacts.batch"}
    \/ pc = "exit" /\ At({"listGroups"}) # {}

\* step 4 is over and returned no error
CreateContactsSucceeded == pc = "exit" /\ err = "" /\ At({"auth"}) # {}

\* C8: every batch request holds between 1 and B items (B = 500 for
\* deletion, 200 for creation); a DeleteAllContacts over N records, and a
\* CreateContacts over N records, that returns no error has issued
\* ceil(N/B) batch requests whose concatenation is the item list in its
\* original order.
C8_BatchesPartitionItems ==
    /\ \A k \in At({"batchDelete"}) :
         1 <= Len(log[k].arg) /\ Len(log[k].arg) <= batchDeleteSize
    /\ \A k \in At({"batchCreate"}) :
         1 <= Len(log[k].arg) /\ Len(log[k].arg) <= batchCreateSize
    /\ DeleteAllContactsSucceeded =>
         /\ Len(Entries("batchDelete")) = Ceil(initial.contacts, batchDeleteSize)
         /\ Flatten(Payloads("batchDelete")) = [k \in 1..initial.contacts |-> k]
    /\ CreateContactsSucceeded =>
         /\ Len(Entries("batchCreate")) =
                Ceil(Len(inputFile.doc.contacts), batchCreateSize)
         /\ Flatten(Payloads("batchCreate")) =
                [k \in DOMAIN inputFile.doc.contacts |->
                    cleanContactForCreation(inputFile.doc.contacts[k], groupMap)]

\* a run deleted 501 records in two batches and created 201 in two
C8_Witness ==
    /\ CreateContactsSucceeded
    /\ Len(Entries("batchDelete")) = 2
    /\ Len(Entries("batchCreate")) = 2
    /\ Len(Entries("batchDelete")[2].arg) = 1
    /\ Len(Entries("batchCreate")[1].arg) = batchCreateSize

\* C9: when a batch-delete request fails, it is the last request of the
\* run, which has ended with the deletion error; the records of the
\* batches before it are gone from the directory, those of the failed
\* batch and after are still there, and nothing was created.
C9_FailedDeleteBatchStopsNoRollback ==
    \A k \in At({"batchDelete"}) :
        ~log[k].ok =>
            /\ k = Len(log)
            /\ pc = "exit"
            /\ err = "failed to delete contacts"
            /\ At({"createGroup", "batchCreate"}) = {}
            /\ LET before == Len(Entries("batchDelete")) - 1
               IN  dirContacts = SubSeq(RemoteContacts(initial.contacts),
                                        before * batchDeleteSize + 1, initial.contacts)

\* the second batch-delete request failed: 500 records are gone, one is left
C9_Witness ==
    /\ log # <<>>
    /\ Last(log).op = "batchDelete"
    /\ ~Last(log).ok
    /\ Len(Entries("batchDelete")) = 2
    /\ Len(dirContacts) = 1
    /\ pc = "exit"

\* ListGroups returned the groups to DeleteUserGroups
GroupListingSucceeded ==
    /\ At({"listGroups"}) # {}
    /\ \A k \in At({"listGroups"}) : log[k].ok
    /\ pc # "DeleteUserGroups.list"

\* DeleteUserGroups has returned
DeleteUserGroupsOver ==
    GroupListingSucceeded /\ pc \notin {"DeleteUserGroups.filter", "DeleteUserGroups.delete"}

GroupReports == SelectSeq(reports, LAMBDA r : r.op = "DeleteUserGroups")

\* C10: once the listing succeeded, DeleteUserGroups requests the deletion
\* of the listed user groups one by one in listing order, whatever the
\* outcome of the requests, and has requested each exactly once when it
\* returns; it returns no error; it reports after every request, the last
\* report giving the number of requests that succeeded so far.
C10_GroupDeletionBestEffort ==
    LET users == UserGroupsOf(initial.groups)
        asked == Payloads("deleteGroup")
    IN  /\ Len(asked) <= Len(users)
        /\ asked = SubSeq(users, 1, Len(asked))
        /\ DeleteUserGroupsOver => asked = users
        /\ GroupListingSucceeded => err # "failed to delete groups"
        /\ (DeleteUserGroupsOver /\ At({"createGroup", "batchCreate"}) = {} /\ pc = "exit")
              => err = ""
        /\ Len(GroupReports) = Len(asked)
        /\ GroupReports # <<>> =>
              /\ Last(GroupReports).cur = Cardinality({k \in At({"deleteGroup"}) : log[k].ok})
              /\ Last(GroupReports).total = Len(users)

\* DeleteUserGroups returned after a failed and a successful deletion
C10_Witness ==
    /\ DeleteUserGroupsOver
    /\ Len(Entries("deleteGroup")) = 2
    /\ ~Entries("deleteGroup")[1].ok
    /\ Entries("deleteGroup")[2].ok
    /\ Last(GroupReports).cur = 1

\* the identifiers of the archive's user groups
ArchiveUserGroupNames ==
    {g.resourceName : g \in Range(UserGroupsOf(inputFile.doc.groups))}

\* C11: the create-group requests of a restore run are the archive's user
\* groups in archive order, one request each; a failed create-group request
\* is the last request of the run, which has ended with the group-creation
\* error, holds no remap table and has issued no record-create request.
C11_GroupCreationAllOrNothing ==
    LET users == UserGroupsOf(inputFile.doc.groups)
        asked == Payloads("createGroup")
    IN  /\ Len(asked) <= Len(users)
        /\ asked = SubSeq(users, 1, Len(asked))
        /\ At({"batchCreate"}) # {} => asked = users
        /\ \A k \in At({"createGroup"}) :
             ~log[k].ok =>
                /\ k = Len(log)
                /\ pc = "exit"
                /\ err = "failed to create groups"
                /\ groupMap = EmptyMap
                /\ At({"batchCreate"}) = {}

\* the second create-group request of a run over an archive with records
\* failed
C11_Witness ==
    /\ Len(Entries("createGroup")) = 2
    /\ Entries("createGroup")[1].ok
    /\ ~Entries("createGroup")[2].ok
    /\ Len(inputFile.doc.contacts) > 0
    /\ pc = "exit"

\* CreateGroups has returned its remap table to runRestore
CreateGroupsSucceeded ==
    /\ At({"createGroup"}) # {}
    /\ \A k \in At({"createGroup"}) : log[k].ok
    /\ pc \in {"CreateContacts.batch", "exit"}

\* C12: the keys of the remap table are identifiers of the archive's user
\* groups, one per successful create-group request so far; once CreateGroups
\* succeeded the keys are exactly the identifiers of the archive's user
\* groups, and each maps to the identifier the service gave to the group
\* it created for that request (the new group bears the archive group's
\* name).
C12_RemapTableOfUserGroups ==
    LET made == Entries("createGroup")
    IN  /\ DOMAIN groupMap \subseteq ArchiveUserGroupNames
        /\ \A g \in Range(inputFile.doc.groups) :
             g.groupType # UserGroupType => g.resourceName \notin DOMAIN groupMap
        /\ CreateGroupsSucceeded =>
             /\ DOMAIN groupMap = ArchiveUserGroupNames
             /\ \A k \in DOMAIN made :
                  /\ groupMap[made[k].arg.resourceName] = NewGroupName(k)
                  /\ \E d \in Range(dirGroups) :
                       /\ d.resourceName = NewGroupName(k)
                       /\ d.name = made[k].arg.name
                       /\ d \notin Range(initial.groups)

\* CreateGroups returned a remap table of two entries
C12_Witness ==
    /\ CreateGroupsSucceeded
    /\ Cardinality(DOMAIN groupMap) = 2
    /\ pc = "CreateContacts.batch"

\* C13: when a batch-create request fails, it is the last request of the
\* run, which has ended with the record-creation error; each batch was
\* requested once, and the directory holds exactly the records the batches
\* before the failed one created.
C13_FailedCreateBatchStopsNoRollback ==
    \A k \in At({"batchCreate"}) :
        ~log[k].ok =>
            /\ k = Len(log)
            /\ pc = "exit"
            /\ err = "failed to create contacts"
            /\ \A j \in At({"batchCreate"}) : j < k => log[j].ok
            /\ \A j \in At({"batchDelete"}), c \in At({"batchCreate"}) : j < c
            /\ LET sent == Payloads("batchCreate")
                   before == SubSeq(sent, 1, Len(sent) - 1)
               IN  /\ dirContacts = Created(Flatten(before), initial.contacts + 1)
                   /\ Len(dirContacts) = (Len(sent) - 1) * batchCreateSize
                   /\ Flatten(sent) =
                         [n \in 1..Len(Flatten(sent)) |->
                             cleanContactForCreation(inputFile.doc.contacts[n], groupMap)]

\* the second batch-create request failed: the 200 records of the first
\* batch are in the directory
C13_Witness ==
    /\ log # <<>>
    /\ Last(log).op = "batchCreate"
    /\ ~Last(log).ok
    /\ Len(Entries("batchCreate")) = 2
    /\ Len(dirContacts) = batchCreateSize
    /\ pc = "exit"

(***************************************************************************)
(* Functions called on their own                                           *)
(***************************************************************************)
\* the variables of a restore run
restoreVars ==
    <<inputFile, credsExist, skipConfirm, initial, remote, pc, err, backup,
      log, reports, listing, locals, groupMap, slept>>

\* no restore run is under way
NoRun ==
    /\ NoOutput
    /\ inputFile = [exists |-> FALSE, readable |-> FALSE, valid |-> FALSE,
                    doc |-> NoBackup]
    /\ credsExist = FALSE
    /\ skipConfirm = FALSE
    /\ dirContacts = <<>>
    /\ dirGroups = <<>>
    /\ initial = [contacts |-> 0, groups |-> <<>>]
    /\ nextId = 1
    /\ nextGroup = 0
    /\ pc = "call"
    /\ err = ""
    /\ backup = NoBackup
    /\ log = <<>>
    /\ reports = <<>>
    /\ srvPages = <<>>
    /\ pageToken = 0
    /\ allContacts = <<>>
    /\ allGroups = <<>>
    /\ resourceNames = <<>>
    /\ userGroups = <<>>
    /\ i = 0
    /\ count = 0
    /\ total = 0
    /\ groupMap = EmptyMap
    /\ slept = {}

SeqsUpTo(S, n) == UNION {[1..k -> S] : k \in 0..n}

(***************************************************************************)
(* cleanContactForCreation on any record and any remap table               *)
(***************************************************************************)
MaxMemberships == 3

MaxNewGroups == 2

\* group identifiers a record's memberships may hold: two system groups,
\* two user groups, and a user group whose identifier begins like the
\* system group contactGroups/all
OldGroupNames ==
    {MyContacts, "contactGroups/starred", "contactGroups/a1", "contactGroups/a2",
     "contactGroups/all1"}

\* the identifiers of user groups among them
OldUserGroupNames == {"contactGroups/a1", "contactGroups/a2", "contactGroups/all1"}

CleanRecords ==
    {Person(id, ms) : id \in {1, 2},
                      ms \in SeqsUpTo({Member(rn) : rn \in OldGroupNames} \cup {DomainMember},
                                      MaxMemberships)}

\* remap tables: some user groups, each mapped to an identifier the
\* service assigned
RemapTables ==
    UNION {[K -> {NewGroupName(k) : k \in 1..MaxNewGroups}] : K \in SUBSET OldUserGroupNames}

InitClean ==
    /\ NoRun
    /\ call \in {[fn |-> "cleanContactForCreation", contact |-> c, groupMap |-> t,
                  done |-> FALSE, out |-> c, after |-> c] :
                    c \in CleanRecords, t \in RemapTables}

\* cleanContact := cleanContactForCreation(contact, groupMap)
CleanCall ==
    /\ pc = "call"
    /\ call.fn = "cleanContactForCreation"
    /\ ~call.done
    /\ call' = [call EXCEPT !.done = TRUE,
                            !.out = cleanContactForCreation(call.contact, call.groupMap),
                            !.after = AfterClean(call.contact)]
    /\ UNCHANGED <<restoreVars, output>>

NextClean == CleanCall

SpecClean == InitClean /\ [][NextClean]_vars

Cleaned == call.fn = "cleanContactForCreation" /\ call.done

\* C14: the record cleanContactForCreation returns has an empty identifier,
\* no top-level metadata, and no metadata stamp on any entry of its field
\* groups, its memberships included.
C14_CleanedRecordCarriesNoMetadata ==
    Cleaned =>
        /\ call.out.resourceName = 0
        /\ ~call.out.metadata
        /\ \A e \in Range(call.out.names) : ~e.metadata
        /\ \A e \in Range(call.out.photos) : ~e.metadata
        /\ \A e \in Range(call.out.memberships) : ~e.metadata

\* C15: every membership of the record cleanContactForCreation returns is
\* a contact-group membership in contactGroups/myContacts or in the group
\* the remap table gives for a membership of the argument; none is in
\* another system group or in a group of the argument's other memberships.
C15_OutputMembershipsPreservedOrRemapped ==
    Cleaned =>
        \A o \in Range(call.out.memberships) :
            /\ o.hasContactGroupMembership
            /\ \/ o.contactGroupResourceName = MyContacts
               \/ \E m \in Range(call.contact.memberships) :
                    /\ m.hasContactGroupMembership
                    /\ m.contactGroupResourceName \in DOMAIN call.groupMap
                    /\ o.contactGroupResourceName =
                          call.groupMap[m.contactGroupResourceName]
            /\ o.contactGroupResourceName \notin OldGroupNames \ {MyContacts}

\* a record in myContacts, starred and a mapped user group came out with
\* two memberships
C15_Witness ==
    /\ Cleaned
    /\ call.contact.memberships =
          <<Member("contactGroups/starred"), Member(MyContacts), Member("contactGroups/a1")>>
    /\ "contactGroups/a1" \in DOMAIN call.groupMap
    /\ Len(call.out.memberships) = 2

\* the membership list the rule gives: a membership in the preserved system
\* group is kept, one in a group that is a key of the remap table is
\* replaced by a membership in the mapped group, any other is dropped
RECURSIVE MappedMemberships(_, _)
MappedMemberships(ms, table) ==
    IF ms = <<>> THEN <<>>
    ELSE LET m == Head(ms)
             rest == MappedMemberships(Tail(ms), table)
         IN  IF ~m.hasContactGroupMembership THEN rest
             ELSE IF m.contactGroupResourceName = MyContacts THEN <<m>> \o rest
             ELSE IF m.contactGroupResourceName \in DOMAIN table
                  THEN <<[hasContactGroupMembership |-> TRUE,
                          contactGroupResourceName |-> table[m.contactGroupResourceName],
                          metadata |-> FALSE]>> \o rest
             ELSE rest

\* C16: the memberships of the record cleanContactForCreation returns are
\* those of the argument mapped in order by the rule keep / replace / drop;
\* a membership whose group is a key of the remap table comes out rewritten.
C16_MembershipsMappedInOrder ==
    Cleaned =>
        /\ call.out.memberships = MappedMemberships(call.contact.memberships, call.groupMap)
        /\ \A m \in Range(call.contact.memberships) :
             (m.hasContactGroupMembership
                 /\ m.contactGroupResourceName \in DOMAIN call.groupMap)
               => \E o \in Range(call.out.memberships) :
                    o.contactGroupResourceName = call.groupMap[m.contactGroupResourceName]

(***************************************************************************)
(* internal/models: building, saving and loading an archive                *)
(***************************************************************************)
DigitChars == "0123456789"

Digit(d) == SubSeq(DigitChars, d + 1, d + 1)

DigitValue(c) == CHOOSE d \in 0..9 : Digit(d) = c

\* strconv: a natural number in decimal
RECURSIVE NatStr(_)
NatStr(n) == IF n < 10 THEN Digit(n) ELSE NatStr(n \div 10) \o Digit(n % 10)

RECURSIVE ParseNat(_)
ParseNat(s) ==
    IF Len(s) = 0 THEN 0
    ELSE ParseNat(SubSeq(s, 1, Len(s) - 1)) * 10 + DigitValue(SubSeq(s, Len(s), Len(s)))

\* a time.Time is its number of nanoseconds since the epoch
NanosPerSecond == 1000000000

FractionDigits == 9

RECURSIVE PadLeft(_, _)
PadLeft(s, n) == IF Len(s) >= n THEN s ELSE PadLeft("0" \o s, n)

RECURSIVE PadRight(_, _)
PadRight(s, n) == IF Len(s) >= n THEN s ELSE PadRight(s \o "0", n)

RECURSIVE TrimZeros(_)
TrimZeros(s) ==
    IF Len(s) > 0 /\ SubSeq(s, Len(s), Len(s)) = "0"
    THEN TrimZeros(SubSeq(s, 1, Len(s) - 1))
    ELSE s

\* the position of the first occurrence of the character c in s, 0 if none
RECURSIVE IndexFrom(_, _, _)
IndexFrom(s, c, k) ==
    IF k > Len(s) THEN 0
    ELSE IF SubSeq(s, k, k) = c THEN k
    ELSE IndexFrom(s, c, k + 1)

FormatTimeSeconds(t) == NatStr(t \div NanosPerSecond) \o "Z"

\* time.Time.MarshalJSON (RFC 3339 with nanoseconds, in UTC): the seconds,
\* then the fraction without its trailing zeros if it is not zero.  The
\* calendar fields are left as a count of seconds.
FormatTime(t) ==
    LET nsec == t % NanosPerSecond
    IN  NatStr(t \div NanosPerSecond)
          \o (IF nsec = 0 THEN ""
              ELSE "." \o TrimZeros(PadLeft(NatStr(nsec), FractionDigits)))
          \o "Z"

\* time.Time.UnmarshalJSON: the seconds, and of the fraction its first nine
\* digits (the digits after the ninth are dropped)
ParseTime(s) ==
    LET body == SubSeq(s, 1, Len(s) - 1)
        dot == IndexFrom(body, ".", 1)
    IN  IF dot = 0 THEN ParseNat(body) * NanosPerSecond
        ELSE ParseNat(SubSeq(body, 1, dot - 1)) * NanosPerSecond
               + ParseNat(SubSeq(PadRight(SubSeq(body, dot + 1, Len(body)),
                                          FractionDigits),
                                 1, FractionDigits))

\* encoding/json with omitempty: the keys with a non-zero value
OmitEmpty(rec, zero) == [k \in {f \in DOMAIN rec : rec[f] # zero[f]} |-> rec[k]]

\* encoding/json decoding into a zero struct: absent keys stay zero
FillZero(obj, zero) ==
    [k \in DOMAIN zero |-> IF k \in DOMAIN obj THEN obj[k] ELSE zero[k]]

\* the zero values of the structs of people/v1
ZeroValue ==
    [name |-> [value |-> 0, metadata |-> FALSE],
     photo |-> [url |-> 0, metadata |-> FALSE],
     membership |-> [hasContactGroupMembership |-> FALSE,
                     contactGroupResourceName |-> "", metadata |-> FALSE],
     person |-> [resourceName |-> 0, metadata |-> FALSE, names |-> <<>>,
                 photos |-> <<>>, memberships |-> <<>>],
     group |-> Group("", "", "")]

OmitEmptyAll(entries, zero) == [k \in DOMAIN entries |-> OmitEmpty(entries[k], zero)]

FillZeroAll(objs, zero) == [k \in DOMAIN objs |-> FillZero(objs[k], zero)]

\* people.Person.MarshalJSON
MarshalPerson(p) ==
    OmitEmpty([resourceName |-> p.resourceName, metadata |-> p.metadata,
               names |-> OmitEmptyAll(p.names, ZeroValue.name),
               photos |-> OmitEmptyAll(p.photos, ZeroValue.photo),
               memberships |-> OmitEmptyAll(p.memberships, ZeroValue.membership)],
              ZeroValue.person)

UnmarshalPerson(obj) ==
    LET p == FillZero(obj, ZeroValue.person)
    IN  [p EXCEPT !.names = FillZeroAll(@, ZeroValue.name),
                  !.photos = FillZeroAll(@, ZeroValue.photo),
                  !.memberships = FillZeroAll(@, ZeroValue.membership)]

\* json.MarshalIndent(b): the document SaveToFile writes
MarshalBackup(b) ==
    [version |-> b.version,
     created_at |-> FormatTime(b.created_at),
     contact_count |-> b.contact_count,
     group_count |-> b.group_count,
     contacts |-> [k \in DOMAIN b.contacts |-> MarshalPerson(b.contacts[k])],
     groups |-> OmitEmptyAll(b.groups, ZeroValue.group)]

\* the document of a zero BackupFile
ZeroDocument == MarshalBackup([NoBackup EXCEPT !.created_at = 0])

\* json.Unmarshal(data, &backup)
UnmarshalBackup(doc) ==
    LET d == FillZero(doc, ZeroDocument)
    IN  [version |-> d.version,
         created_at |-> ParseTime(d.created_at),
         contact_count |-> d.contact_count,
         group_count |-> d.group_count,
         contacts |-> [k \in DOMAIN d.contacts |-> UnmarshalPerson(d.contacts[k])],
         groups |-> FillZeroAll(d.groups, ZeroValue.group)]

\* NewBackupFile(), the clock reading now
NewBackupFile(now) == [BackupFile(BackupVersion, <<>>, <<>>, 0, 0) EXCEPT !.created_at = now]

\* b.AddContact(contact)
AddContact(b, contact) ==
    LET contacts == Append(b.contacts, contact)
    IN  [b EXCEPT !.contacts = contacts, !.contact_count = Len(contacts)]

\* b.AddGroup(group)
AddGroup(b, group) ==
    LET groups == Append(b.groups, group)
    IN  [b EXCEPT !.groups = groups, !.group_count = Len(groups)]

\* what opening the path for writing with truncation (os.WriteFile,
\* os.Create) makes of the file g written over the file f that was at the
\* path: a file that existed keeps its permissions, a new one can be read
Truncated(f, g) == [g EXCEPT !.readable = IF f.exists THEN f.readable ELSE TRUE]

\* b.SaveToFile(path) over the file f at the path.  marshalOk: whether
\* json.MarshalIndent succeeds; write: how os.WriteFile ends ("ok", or
\* the file cannot be opened for writing, or a write fails after the file
\* was truncated)
SaveToFile(b, f, marshalOk, write) ==
    IF ~marshalOk THEN [err |-> "failed to marshal backup data", file |-> f]
    ELSE IF write = "openFailed" THEN [err |-> "failed to write backup file", file |-> f]
    ELSE IF write = "writeFailed"
         THEN [err |-> "failed to write backup file",
               file |-> Truncated(f, PartialFile(<<>>))]
    ELSE [err |-> "", file |-> Truncated(f, WrittenFile(MarshalBackup(b)))]

WriteOutcomes == {"ok", "openFailed", "writeFailed"}

\* LoadBackupFile(path) over the file f at the path
LoadFrom(f) ==
    LoadBackupFile([exists |-> f.exists, readable |-> f.readable, valid |-> f.valid,
                    doc |-> IF f.valid THEN UnmarshalBackup(f.content) ELSE NoBackup])

(***************************************************************************)
(* The archives the program holds                                          *)
(***************************************************************************)
MaxBuilt == 2

\* clock readings: whole seconds, and fractions with and without trailing
\* zeros
Times == {1, NanosPerSecond, NanosPerSecond + 500000000, 2 * NanosPerSecond + 1020}

\* what a backup adds: records and groups as the service returns them
BuiltContacts ==
    {Person(1, <<Member(MyContacts)>>),
     Person(2, <<Member("contactGroups/a1"), DomainMember>>)}

BuiltGroups ==
    {Group(MyContacts, "myContacts", SystemGroupType),
     Group("contactGroups/a1", "Work", UserGroupType)}

\* documents of files someone else wrote: any version, any counts
DiskDocuments ==
    {MarshalBackup([BackupFile(v, cs, gs, cc, gc) EXCEPT !.created_at = NanosPerSecond]) :
        v \in {"", BackupVersion},
        cs \in SeqsUpTo(BuiltContacts, 1), gs \in SeqsUpTo(BuiltGroups, 1),
        cc \in 0..1, gc \in 0..1}
      \cup {[version |-> BackupVersion]}

DiskFiles ==
    {NoFile, [PartialFile(<<>>) EXCEPT !.readable = FALSE], PartialFile(<<>>)}
      \cup {WrittenFile(doc) : doc \in DiskDocuments}

\* call.phase: "start" (no archive held), "held" (an archive built or
\* loaded), "saved" (the archive held was saved), "reloaded" (the saved
\* file was loaded), "done" (a call failed)
InitArchive ==
    /\ NoRun
    /\ call \in {[fn |-> "BackupFile", phase |-> "start", held |-> NoBackup,
                  origin |-> "", file |-> f, err |-> "", saved |-> NoBackup] :
                    f \in DiskFiles}

\* backup := models.NewBackupFile()
NewBackupFileCall ==
    /\ call.fn = "BackupFile"
    /\ call.phase = "start"
    /\ \E now \in Times :
         call' = [call EXCEPT !.phase = "held", !.origin = "NewBackupFile",
                              !.held = NewBackupFile(now)]
    /\ UNCHANGED <<restoreVars, output>>

\* backup.AddContact(contact)
AddContactCall ==
    /\ call.fn = "BackupFile"
    /\ call.phase = "held"
    /\ call.origin = "NewBackupFile"
    /\ Len(call.held.contacts) < MaxBuilt
    /\ \E contact \in BuiltContacts :
         call' = [call EXCEPT !.held = AddContact(call.held, contact)]
    /\ UNCHANGED <<restoreVars, output>>

\* backup.AddGroup(group)
AddGroupCall ==
    /\ call.fn = "BackupFile"
    /\ call.phase = "held"
    /\ call.origin = "NewBackupFile"
    /\ Len(call.held.groups) < MaxBuilt
    /\ \E group \in BuiltGroups :
         call' = [call EXCEPT !.held = AddGroup(call.held, group)]
    /\ UNCHANGED <<restoreVars, output>>

\* backup.SaveToFile(path)
SaveToFileCall ==
    /\ call.fn = "BackupFile"
    /\ call.phase = "held"
    /\ \E marshalOk \in BOOLEAN, write \in WriteOutcomes :
         LET r == SaveToFile(call.held, call.file, marshalOk, write)
         IN  call' = [call EXCEPT !.phase = IF r.err = "" THEN "saved" ELSE "done",
                                  !.err = r.err,
                                  !.file = r.file,
                                  !.saved = call.held]
    /\ UNCHANGED <<restoreVars, output>>

\* backup, err := models.LoadBackupFile(path)
LoadBackupFileCall ==
    /\ call.fn = "BackupFile"
    /\ call.phase \in {"start", "saved"}
    /\ LET r == LoadFrom(call.file)
       IN  call' = [call EXCEPT
                       !.phase = IF call.phase = "saved" THEN "reloaded"
                                 ELSE IF r.err = "" THEN "held" ELSE "done",
                       !.origin = "LoadBackupFile",
                       !.err = r.err,
                       !.held = r.backup]
    /\ UNCHANGED <<restoreVars, output>>

NextArchive ==
    \/ NewBackupFileCall
    \/ AddContactCall
    \/ AddGroupCall
    \/ SaveToFileCall
    \/ LoadBackupFileCall

SpecArchive == InitArchive /\ [][NextArchive]_vars

\* the program holds an archive
HoldsArchive ==
    /\ call.fn = "BackupFile"
    /\ call.origin # ""
    /\ call.err = ""

\* C17: an archive the program holds, built by NewBackupFile and
\* AddContact / AddGroup calls or returned by LoadBackupFile, has
\* ContactCount = len(Contacts) and GroupCount = len(Groups).
C17_CountsEqualLengths ==
    HoldsArchive =>
        /\ call.held.contact_count = Len(call.held.contacts)
        /\ call.held.group_count = Len(call.held.groups)

\* LoadBackupFile returned after SaveToFile wrote the archive held
Reloaded ==
    /\ call.fn = "BackupFile"
    /\ call.phase = "reloaded"
    /\ call.saved.version # ""

\* the archive LoadBackupFile returned is the archive SaveToFile wrote
SameArchive ==
    /\ call.err = ""
    /\ call.held = call.saved
    /\ call.held.version = call.saved.version
    /\ call.held.created_at = call.saved.created_at
    /\ call.held.contact_count = call.saved.contact_count
    /\ call.held.group_count = call.saved.group_count
    /\ call.held.contacts = call.saved.contacts
    /\ call.held.groups = call.saved.groups

\* SaveToFile and LoadBackupFile at a path the process can read: no file
\* is there, or one it can read (os.WriteFile leaves the permissions of a
\* file that exists as they are)
InitRoundTrip == InitArchive /\ (call.file.exists => call.file.readable)

SpecRoundTrip == InitRoundTrip /\ [][NextArchive]_vars

\* C18: LoadBackupFile on the file SaveToFile wrote for an archive with a
\* non-empty version returns no error and an archive with the same
\* version, timestamp, counts, records and groups.
C18_LoadAfterSaveReturnsArchive == Reloaded => SameArchive

\* an archive of two records and two groups, created at a time with a
\* fraction of a second, was saved to a file that can be read and loaded
\* again
C18_Witness ==
    /\ Reloaded
    /\ call.file.readable
    /\ SameArchive
    /\ call.saved.created_at = NanosPerSecond + 500000000
    /\ Len(call.saved.contacts) = MaxBuilt
    /\ Len(call.saved.groups) = MaxBuilt
    /\ \E c \in Range(call.saved.contacts) : c.photos # <<>>
    /\ \E c \in Range(call.saved.contacts) : c.photos = <<>>

(***************************************************************************)
(* cmd/backup.go: the backup run                                           *)
(***************************************************************************)
MaxBackup == 3

SmallBackupPage == 2

OutputFormats == {Runes("json"), Runes("csv"), Runes("CSV"), Runes("xml")}

\* what a backup run never changes
backupFixed ==
    <<inputFile, credsExist, skipConfirm, initial, call, outputFormat, remote, groupMap>>

\* a file an earlier run left at the output path
PreviousOutput == WrittenFile(MarshalBackup(NewBackupFile(1)))

InitBackup ==
    /\ call = NoCall
    /\ inputFile = [exists |-> FALSE, readable |-> FALSE, valid |-> FALSE,
                    doc |-> NoBackup]
    /\ skipConfirm = FALSE
    /\ credsExist \in BOOLEAN
    /\ outputFormat \in OutputFormats
    /\ outputFile \in {NoFile, PreviousOutput}
    /\ writer = NoWriter
    /\ dirContacts \in {RemoteContacts(n) : n \in {0, 1, MaxBackup}}
    /\ dirGroups \in RemoteGroupLists
    /\ initial = [contacts |-> Len(dirContacts), groups |-> dirGroups,
                  outputFile |-> outputFile]
    /\ nextId = Len(dirContacts) + 1
    /\ nextGroup = 0
    /\ pc = "backup.format"
    /\ err = ""
    /\ backup = NoBackup
    /\ log = <<>>
    /\ reports = <<>>
    /\ srvPages = <<>>
    /\ pageToken = 0
    /\ allContacts = <<>>
    /\ allGroups = <<>>
    /\ resourceNames = <<>>
    /\ userGroups = <<>>
    /\ i = 0
    /\ count = 0
    /\ total = 0
    /\ groupMap = EmptyMap
    /\ slept = {}

\* runBackup: format := strings.ToLower(outputFormat)
Format == ToLower(outputFormat)

\* backup.go 397-401: the format must be json or csv
Backup_ValidateFormat ==
    /\ pc = "backup.format"
    /\ IF Format # Runes("json") /\ Format # Runes("csv")
       THEN Return("invalid format")
       ELSE pc' = "backup.credentials" /\ UNCHANGED <<err, listing, locals>>
    /\ UNCHANGED <<backupFixed, outputFile, writer, backup, log, reports>>
    /\ UNCHANGED slept

\* backup.go 408-411: the credentials file must exist
Backup_CheckCredentials ==
    /\ pc = "backup.credentials"
    /\ IF ~credsExist
       THEN Return("credentials file not found")
       ELSE pc' = "backup.auth" /\ UNCHANGED <<err, listing, locals>>
    /\ UNCHANGED <<backupFixed, outputFile, writer, backup, log, reports>>
    /\ UNCHANGED slept

\* backup.go 415-420: authenticator.GetClient succeeds or fails
Backup_Authenticate ==
    /\ pc = "backup.auth"
    /\ \E ok \in BOOLEAN :
         /\ log' = Append(log, Entry("auth", 0, ok))
         /\ IF ok
            THEN pc' = "backup.client" /\ UNCHANGED <<err, listing, locals>>
            ELSE Return("authentication failed")
    /\ UNCHANGED <<backupFixed, outputFile, writer, backup, reports>>
    /\ UNCHANGED slept

\* backup.go 426-432: contacts.NewClient, then models.NewBackupFile
Backup_NewClient ==
    /\ pc = "backup.client"
    /\ \E ok \in BOOLEAN, now \in {NanosPerSecond + 500000000} :
         IF ok
         THEN /\ pc' = "backup.ListGroups"
              /\ backup' = NewBackupFile(now)
              /\ UNCHANGED <<err, listing, locals>>
         ELSE /\ Return("failed to create contacts client")
              /\ UNCHANGED backup
    /\ UNCHANGED <<backupFixed, outputFile, writer, log, reports>>
    /\ UNCHANGED slept

\* for _, group := range groups { backup.AddGroup(group) }
RECURSIVE AddGroups(_, _)
AddGroups(b, groups) ==
    IF groups = <<>> THEN b ELSE AddGroups(AddGroup(b, Head(groups)), Tail(groups))

\* for _, contact := range contactsList { backup.AddContact(contact) }
RECURSIVE AddContacts(_, _)
AddContacts(b, contacts) ==
    IF contacts = <<>> THEN b
    ELSE AddContacts(AddContact(b, Head(contacts)), Tail(contacts))

BackupContactLayouts ==
    Layouts(dirContacts, maxPageSize, {SmallBackupPage, maxPageSize})

\* backup.go 434-443 with ListGroups 97-118: one page request; after the
\* last page the groups are added to the archive
Backup_ListGroups ==
    /\ pc = "backup.ListGroups"
    /\ \E pages \in PagesFor(GroupLayouts), ok \in BOOLEAN :
         LET resp == ServePage(pages, pageToken)
             groups == AppendPage(allGroups, resp.items)
         IN  /\ log' = Append(log, Entry("listGroups", pageToken, ok))
             /\ slept' = IF ~ListFailed(ok) /\ MorePages(resp.next)
                         THEN slept \cup {Len(log) + 1} ELSE slept
             /\ IF ListFailed(ok)
                THEN /\ Return("failed to fetch contact groups")
                     /\ UNCHANGED backup
                ELSE IF MorePages(resp.next)
                THEN /\ srvPages' = pages
                     /\ allGroups' = groups
                     /\ pageToken' = resp.next
                     /\ UNCHANGED <<pc, err, allContacts, locals, backup>>
                ELSE /\ NoListing
                     /\ backup' = AddGroups(backup, groups)
                     /\ pc' = "backup.ListContacts"
                     /\ UNCHANGED <<err, locals>>
    /\ UNCHANGED <<backupFixed, outputFile, writer, reports>>

\* backup.go 464-480 with ListContacts 54-86: one page request and the
\* progress report after it; declared is the response's TotalPeople.
\* After the last page the records are added to the archive.
Backup_ListContacts ==
    /\ pc = "backup.ListContacts"
    /\ \E pages \in PagesFor(BackupContactLayouts), ok \in BOOLEAN,
          declared \in {0, Len(dirContacts)} :
         LET resp == ServePage(pages, pageToken)
             contacts == AppendPage(allContacts, resp.items)
             totalCount == IF total = 0 /\ declared > 0 THEN declared ELSE total
         IN  /\ log' = Append(log, Entry("listContacts", pageToken, ok))
             /\ slept' = IF ~ListFailed(ok) /\ MorePages(resp.next)
                         THEN slept \cup {Len(log) + 1} ELSE slept
             /\ IF ListFailed(ok)
                THEN /\ Return("failed to fetch contacts")
                     /\ UNCHANGED <<backup, reports>>
                ELSE /\ reports' = Append(reports,
                            Report("ListContacts", Len(contacts), totalCount))
                     /\ IF MorePages(resp.next)
                        THEN /\ srvPages' = pages
                             /\ allContacts' = contacts
                             /\ pageToken' = resp.next
                             /\ total' = totalCount
                             /\ UNCHANGED <<pc, err, allGroups, backup,
                                            resourceNames, userGroups, i, count>>
                        ELSE /\ NoListing
                             /\ NoLocals
                             /\ backup' = AddContacts(backup, contacts)
                             /\ pc' = "backup.save"
                             /\ UNCHANGED err
    /\ UNCHANGED <<backupFixed, outputFile, writer>>

\* backup.go 485-488: backup.SaveToFile(outputFile)
Backup_SaveToFile ==
    /\ pc = "backup.save"
    /\ Format # Runes("csv")
    /\ \E marshalOk \in BOOLEAN, write \in WriteOutcomes :
         LET r == SaveToFile(backup, outputFile, marshalOk, write)
         IN  /\ outputFile' = r.file
             /\ log' = Append(log, Entry("save", r.err, r.err = ""))
             /\ Return(IF r.err = "" THEN "" ELSE "failed to save backup")
    /\ UNCHANGED <<backupFixed, writer, backup, reports>>
    /\ UNCHANGED slept

(***************************************************************************)
(* internal/models: BackupFile.SaveToCSV                                   *)
(***************************************************************************)
\* the rows of the export.  What a row holds is not looked at here: a row
\* stands for the record it is written for.
HeaderRow == [row |-> "header", record |-> 0]

RecordRow(contact) == [row |-> "record", record |-> contact.resourceName]

\* how writer.Write(row) may end: the row stays in the writer's buffer, or
\* the buffer fills and is written to the file together with the row, or
\* that write to the file fails
CsvWriteOutcomes == {"buffered", "spilled", "failed"}

\* writer.Write(row) on the writer w over the file f
CsvWrite(w, f, row, outcome) ==
    IF w.failed \/ outcome = "failed"
    THEN [ok |-> FALSE, writer |-> [buffered |-> <<>>, failed |-> TRUE],
          file |-> IF w.failed THEN f ELSE Truncated(f, PartialFile(f.content))]
    ELSE IF outcome = "spilled"
    THEN [ok |-> TRUE, writer |-> NoWriter,
          file |-> Truncated(f, WrittenFile(f.content \o w.buffered \o <<row>>))]
    ELSE [ok |-> TRUE, writer |-> [w EXCEPT !.buffered = Append(@, row)], file |-> f]

\* SaveToCSV 430-438: os.Create(path) truncates or creates the file
SaveToCSV_Create ==
    /\ pc = "backup.save"
    /\ Format = Runes("csv")
    /\ \E ok \in BOOLEAN :
         IF ok
         THEN /\ outputFile' = Truncated(outputFile, WrittenFile(<<>>))
              /\ writer' = NoWriter
              /\ pc' = "SaveToCSV.header"
              /\ UNCHANGED <<err, log, listing, locals>>
         ELSE /\ log' = Append(log, Entry("save", "failed to create CSV file", FALSE))
              /\ Return("failed to save backup")
              /\ UNCHANGED <<outputFile, writer>>
    /\ UNCHANGED <<backupFixed, backup, reports>>
    /\ UNCHANGED slept

\* SaveToCSV 441-443: writer.Write(headers); on an error the deferred
\* Flush and Close run and runBackup returns
SaveToCSV_WriteHeader ==
    /\ pc = "SaveToCSV.header"
    /\ \E outcome \in CsvWriteOutcomes :
         LET r == CsvWrite(writer, outputFile, HeaderRow, outcome)
         IN  /\ writer' = r.writer
             /\ outputFile' = r.file
             /\ IF ~r.ok
                THEN /\ log' = Append(log, Entry("save", "failed to write CSV header", FALSE))
                     /\ Return("failed to save backup")
                ELSE /\ pc' = IF Len(backup.contacts) > 0 THEN "SaveToCSV.row"
                              ELSE "SaveToCSV.return"
                     /\ i' = 0
                     /\ UNCHANGED <<err, log, listing, resourceNames, userGroups,
                                    count, total>>
    /\ UNCHANGED <<backupFixed, backup, reports>>
    /\ UNCHANGED slept

\* SaveToCSV 446-451: writer.Write(row) for the next record
SaveToCSV_WriteRow ==
    /\ pc = "SaveToCSV.row"
    /\ \E outcome \in CsvWriteOutcomes :
         LET r == CsvWrite(writer, outputFile, RecordRow(backup.contacts[i + 1]), outcome)
         IN  /\ writer' = r.writer
             /\ outputFile' = r.file
             /\ IF ~r.ok
                THEN /\ log' = Append(log, Entry("save", "failed to write CSV row", FALSE))
                     /\ Return("failed to save backup")
                ELSE /\ pc' = IF i + 1 < Len(backup.contacts) THEN "SaveToCSV.row"
                              ELSE "SaveToCSV.return"
                     /\ i' = i + 1
                     /\ UNCHANGED <<err, log, listing, resourceNames, userGroups,
                                    count, total>>
    /\ UNCHANGED <<backupFixed, backup, reports>>
    /\ UNCHANGED slept

\* SaveToCSV 453 with the deferred calls of 438 and 434: return nil, then
\* writer.Flush() writes the buffered rows (its error is not looked at) and
\* file.Close()
SaveToCSV_Return ==
    /\ pc = "SaveToCSV.return"
    /\ \E flushed \in BOOLEAN :
         /\ outputFile' = Truncated(outputFile,
                                     IF flushed
                                     THEN WrittenFile(outputFile.content \o writer.buffered)
                                     ELSE PartialFile(outputFile.content))
         /\ writer' = NoWriter
         /\ log' = Append(log, Entry("save", "", TRUE))
         /\ Return("")
    /\ UNCHANGED <<backupFixed, backup, reports>>
    /\ UNCHANGED slept

NextBackup ==
    \/ Backup_ValidateFormat
    \/ Backup_CheckCredentials
    \/ Backup_Authenticate
    \/ Backup_NewClient
    \/ Backup_ListGroups
    \/ Backup_ListContacts
    \/ Backup_SaveToFile
    \/ SaveToCSV_Create
    \/ SaveToCSV_WriteHeader
    \/ SaveToCSV_WriteRow
    \/ SaveToCSV_Return

SpecBackup == InitBackup /\ [][NextBackup]_vars

\* the requests a backup run fetches with, and the authentication
FetchOps == {"auth", "listGroups", "listContacts"}

\* the backup run is at or past its save step
AtSave ==
    \/ pc \in {"backup.save", "SaveToCSV.header", "SaveToCSV.row", "SaveToCSV.return"}
    \/ pc = "exit" /\ At({"save"}) # {}

\* C19: the file at the output path differs from what it was before the
\* run only if the authentication and every page request of the group
\* listing and of the record listing succeeded and both listings are over;
\* when the authentication or a page request fails, it is the last step of
\* the run, which has ended with an error, the file being as it was.
C19_OutputWrittenOnlyAfterFetches ==
    /\ outputFile # initial.outputFile =>
          /\ \A k \in At(FetchOps) : log[k].ok
          /\ At({"auth"}) # {}
          /\ At({"listGroups"}) # {}
          /\ At({"listContacts"}) # {}
          /\ AtSave
          /\ backup.groups = dirGroups
          /\ backup.contacts = dirContacts
    /\ \A k \in At(FetchOps) :
          ~log[k].ok =>
             /\ k = Len(log)
             /\ pc = "exit"
             /\ err \in {"authentication failed", "failed to fetch contact groups",
                         "failed to fetch contacts"}
             /\ outputFile = initial.outputFile

\* the second page request of the record listing failed, with a file of
\* an earlier run at the output path
C19_Witness ==
    /\ pc = "exit"
    /\ err = "failed to fetch contacts"
    /\ Len(Entries("listContacts")) = 2
    /\ initial.outputFile.exists
    /\ outputFile = initial.outputFile

\* the errors SaveToFile and SaveToCSV return when serializing fails
SerializationErrors ==
    {"failed to marshal backup data", "failed to write CSV header",
     "failed to write CSV row"}

\* C20: when SaveToFile or SaveToCSV has returned a serialization error,
\* the output path holds what it held before the run: no file, or the
\* previous file.
C20_NoPartialOutputOnSerializationFailure ==
    \A k \in At({"save"}) :
        log[k].arg \in SerializationErrors => outputFile = initial.outputFile

(***************************************************************************)
(* internal/auth: Authenticator.GetClient                                  *)
(***************************************************************************)
MaxCallbacks == 2

\* an oauth2.Token: access token, refresh token, whether its expiry passed
Token(access, refresh, expired) ==
    [access |-> access, refresh |-> refresh, expired |-> expired]

NoToken == Token("", "", FALSE)

\* the credential store (token.json): kind is "none" (no file), "garbage"
\* (not a JSON document, or a file cut short by a failed write) or "token"
Store(kind, token) == [kind |-> kind, token |-> token]

StoredTokens ==
    {Token("old", "r0", FALSE), Token("old", "", FALSE), Token("old", "r0", TRUE),
     Token("old", "", TRUE), Token("", "r0", FALSE)}

Stores ==
    {Store("none", NoToken), Store("garbage", NoToken)}
      \cup {Store("token", t) : t \in StoredTokens}

\* the application-secret file: whether it can be read, parses as JSON, and
\* the client id of its installed and of its web block ("": no such block)
SecretFiles ==
    {[readable |-> r, valid |-> v, installed |-> ins, web |-> web] :
        r \in BOOLEAN, v \in BOOLEAN, ins \in {"", "installed-id"},
        web \in {"", "web-id"}}

\* the callbacks a browser may send to /callback: the code, error and state
\* parameters of the query ("": absent; state "sent": the one of the
\* authorization URL)
Callbacks ==
    {[code |-> "c1", error |-> "", state |-> "sent"],
     [code |-> "c2", error |-> "", state |-> "other"],
     [code |-> "", error |-> "access_denied", state |-> "sent"],
     [code |-> "", error |-> "", state |-> ""]}

\* oauth2.Token.Valid
ValidNever(token) == FALSE

Valid(token) == token.access # "" /\ ~token.expired

ClientOfWebFirst(secret) == IF secret.web # "" THEN secret.web ELSE secret.installed

\* loadCredentials 111-120: the installed block is looked at first
ClientOf(secret) == IF secret.installed # "" THEN secret.installed ELSE secret.web

\* loadCredentials: the configuration, or the error
loadCredentials(secret) ==
    IF ~secret.readable THEN [err |-> "unable to read credentials file", clientID |-> ""]
    ELSE IF ~secret.valid THEN [err |-> "unable to parse credentials file", clientID |-> ""]
    ELSE IF secret.installed = "" /\ secret.web = ""
         THEN [err |-> "credentials file must contain 'installed' or 'web'",
               clientID |-> ""]
    ELSE [err |-> "", clientID |-> ClientOf(secret)]

\* loadToken: the token of the store, or nil (ok = FALSE)
loadToken(store) ==
    IF store.kind = "token" THEN [ok |-> TRUE, token |-> store.token]
    ELSE [ok |-> FALSE, token |-> NoToken]

\* saveToken over the store: it writes the token, or fails before it wrote
\* anything (no home directory, no token directory, the file cannot be
\* opened), or fails after the file was truncated
SaveOutcomes == {"ok", "failed", "partial"}

saveToken(store, token, outcome) ==
    CASE outcome = "ok" -> Store("token", token)
      [] outcome = "failed" -> store
      [] outcome = "partial" -> Store("garbage", NoToken)

\* GetClient 61: a.saveToken(newToken)
SavedToken(old, new) == new

RefreshFatalOnError(ok) == ~ok

\* GetClient 60-66: a failed refresh is not returned
RefreshFatal(ok) == FALSE

FlowErrorIgnored(e) == FALSE

\* GetClient 70-72: an error of the flow is returned
FlowFailed(e) == e # ""

\* the token a refresh exchange returns for the token refreshed
Refreshed(token) == Token("fresh", token.refresh, FALSE)

\* the token the code exchange returns
Exchanged(code) == Token("new-" \o code, "r1", FALSE)

\* call.pc: the position of GetClient and doOAuthFlow; call.events: what
\* the call did, in order; saved: the outcome of saveToken; flowErr,
\* flowToken: what doOAuthFlow returned; listener: "none", "open", "closed";
\* serve: the goroutine of server.Serve, "none", "serving", "sending" (Serve
\* returned an error that is to be sent on errChan), "done";
\* handlers: the callback handlers started, each with its request and
\* whether it has sent; timer: the channel of time.After, "none", "armed",
\* "fired"; mayCancel, mayFail, callbacks: what the environment may still do
\* (cancel the context, fail the Accept of the server, send callbacks)
InitAuth ==
    /\ NoRun
    /\ call \in {[fn |-> "GetClient", pc |-> "loadCredentials",
                  secret |-> s, store |-> st, initialStore |-> st,
                  clientID |-> "", token |-> NoToken, hasToken |-> FALSE,
                  client |-> NoToken, err |-> "", events |-> <<>>,
                  saved |-> "", flowErr |-> "", flowToken |-> NoToken,
                  listener |-> "none", serve |-> "none", shutdown |-> FALSE,
                  codeChan |-> <<>>, errChan |-> <<>>, handlers |-> <<>>,
                  code |-> "", timer |-> "none", cancelled |-> FALSE,
                  mayCancel |-> mc, mayFail |-> mf, callbacks |-> n] :
                    s \in SecretFiles, st \in Stores, mc \in BOOLEAN,
                    mf \in BOOLEAN, n \in {0, MaxCallbacks}}

AtAuth(p) == call.fn = "GetClient" /\ call.pc = p

Event(c, e) == [c EXCEPT !.events = Append(@, e)]

\* GetClient returns the client built on token, or the error e
Returned(c, token, e) == [c EXCEPT !.pc = "exit", !.client = token, !.err = e]

\* GetClient 44-48
GetClient_LoadCredentials ==
    /\ AtAuth("loadCredentials")
    /\ LET r == loadCredentials(call.secret)
       IN  call' = IF r.err # ""
                   THEN Returned(call, NoToken, "failed to load credentials")
                   ELSE [call EXCEPT !.pc = "loadToken", !.clientID = r.clientID]
    /\ UNCHANGED <<restoreVars, output>>

\* GetClient 51-57: the cached token is used, or refreshed, or the flow runs
GetClient_LoadToken ==
    /\ AtAuth("loadToken")
    /\ LET r == loadToken(call.store)
           c == Event([call EXCEPT !.token = r.token, !.hasToken = r.ok], "loadToken")
       IN  call' = IF r.ok /\ Valid(r.token) THEN Returned(c, r.token, "")
                   ELSE IF r.ok /\ r.token.refresh # "" THEN [c EXCEPT !.pc = "refresh"]
                   ELSE [c EXCEPT !.pc = "listen"]
    /\ UNCHANGED <<restoreVars, output>>

\* GetClient 58-66: tokenSource.Token() exchanges the refresh token; on
\* success the new token is saved (a failure to save is only warned about)
GetClient_Refresh ==
    /\ AtAuth("refresh")
    /\ \E ok \in BOOLEAN, saved \in SaveOutcomes :
         LET c == Event(call, "refresh")
             newToken == Refreshed(call.token)
         IN  call' =
               IF ok
               THEN Returned(Event([c EXCEPT !.saved = saved, !.store =
                                       saveToken(call.store,
                                                 SavedToken(call.token, newToken), saved)],
                                   "saveToken"),
                             newToken, "")
               ELSE IF RefreshFatal(ok)
                    THEN Returned(Event(c, "refreshFailed"), NoToken, "refresh failed")
               ELSE [Event(c, "refreshFailed") EXCEPT !.pc = "listen"]
    /\ UNCHANGED <<restoreVars, output>>

DeferredCloseSkipped(listener) == listener

\* doOAuthFlow 140: defer listener.Close()
DeferredClose(listener) == "closed"

SelectReadyNoTimeout(c) ==
    (IF c.codeChan # <<>> THEN {"code"} ELSE {})
      \cup (IF c.errChan # <<>> THEN {"error"} ELSE {})
      \cup (IF c.cancelled THEN {"cancel"} ELSE {})

\* doOAuthFlow 193-202: the cases of the select that can proceed
SelectReady(c) ==
    (IF c.codeChan # <<>> THEN {"code"} ELSE {})
      \cup (IF c.errChan # <<>> THEN {"error"} ELSE {})
      \cup (IF c.cancelled THEN {"cancel"} ELSE {})
      \cup (IF c.timer = "fired" THEN {"timeout"} ELSE {})

\* doOAuthFlow returns (token, e) after the listener was opened, and
\* GetClient 69-72 goes on with it
FlowReturn(c, token, e) ==
    LET d == [c EXCEPT !.listener = DeferredClose(@), !.flowErr = e,
                       !.flowToken = token]
    IN  IF FlowFailed(e) THEN Returned(d, NoToken, "OAuth flow failed")
        ELSE [d EXCEPT !.pc = "saveToken", !.token = token]

\* doOAuthFlow 136-189: the listener is opened, the server goroutine is
\* started and the browser is sent to the authorization URL
Flow_Listen ==
    /\ AtAuth("listen")
    /\ \E ok \in BOOLEAN :
         LET c == Event(call, "flow")
         IN  call' =
               IF ~ok
               THEN LET d == [c EXCEPT !.flowErr = "failed to start local server"]
                    IN  IF FlowFailed(d.flowErr)
                        THEN Returned(d, NoToken, "OAuth flow failed")
                        ELSE [d EXCEPT !.pc = "saveToken"]
               ELSE [c EXCEPT !.pc = "select", !.listener = "open",
                              !.serve = "serving", !.timer = "armed"]
    /\ UNCHANGED <<restoreVars, output>>

\* a request to /callback is accepted and its handler goroutine starts
Callback ==
    /\ call.fn = "GetClient"
    /\ call.listener = "open" /\ call.serve = "serving"
    /\ call.callbacks > 0
    /\ \E req \in Callbacks :
         call' = [call EXCEPT !.callbacks = @ - 1,
                              !.handlers = Append(@, [req |-> req, sent |-> FALSE])]
    /\ UNCHANGED <<restoreVars, output>>

\* doOAuthFlow 157-162: the error a handler sends for a request without
\* a code
CallbackError(req) ==
    "authorization failed: "
      \o (IF req.error = "" THEN "no authorization code received" ELSE req.error)

\* doOAuthFlow 155-169: the handler sends on errChan or on codeChan, and
\* blocks while the channel (capacity 1) is full; state is never read
Handler_Send ==
    /\ call.fn = "GetClient"
    /\ \E k \in DOMAIN call.handlers :
         LET h == call.handlers[k]
         IN  /\ ~h.sent
             /\ IF h.req.code = ""
                THEN /\ call.errChan = <<>>
                     /\ call' = [call EXCEPT !.handlers[k].sent = TRUE,
                                             !.errChan = <<CallbackError(h.req)>>]
                ELSE /\ call.codeChan = <<>>
                     /\ call' = [call EXCEPT !.handlers[k].sent = TRUE,
                                             !.codeChan = <<h.req.code>>]
    /\ UNCHANGED <<restoreVars, output>>

\* the error server.Serve returns when Accept fails
AcceptError == "accept failed"

\* doOAuthFlow 172: server.Serve returns.  After Shutdown it returns
\* ErrServerClosed and the goroutine ends; when Accept fails (the listener
\* was closed, or the environment fails it) it returns that error, which
\* the goroutine goes on to send.  Serve closes the listener as it returns
Serve_Return ==
    /\ call.fn = "GetClient"
    /\ call.serve = "serving"
    /\ \/ /\ call.shutdown
          /\ call' = [call EXCEPT !.serve = "done"]
       \/ /\ ~call.shutdown
          /\ call.listener = "closed" \/ call.mayFail
          /\ call' = [call EXCEPT !.serve = "sending", !.mayFail = FALSE,
                                  !.listener = "closed"]
    /\ UNCHANGED <<restoreVars, output>>

\* doOAuthFlow 173: errChan <- err, which waits while errChan (capacity 1)
\* is full
Serve_Send ==
    /\ call.fn = "GetClient"
    /\ call.serve = "sending"
    /\ call.errChan = <<>>
    /\ call' = [call EXCEPT !.serve = "done", !.errChan = <<AcceptError>>]
    /\ UNCHANGED <<restoreVars, output>>

\* the caller cancels ctx
Cancel ==
    /\ call.fn = "GetClient"
    /\ call.pc \in {"select", "shutdown", "exchange"}
    /\ call.mayCancel /\ ~call.cancelled
    /\ call' = [call EXCEPT !.cancelled = TRUE]
    /\ UNCHANGED <<restoreVars, output>>

\* the five minutes of time.After pass
TimerFire ==
    /\ AtAuth("select")
    /\ call.timer = "armed"
    /\ call' = [call EXCEPT !.timer = "fired"]
    /\ UNCHANGED <<restoreVars, output>>

\* doOAuthFlow 193-202: one case that can proceed is taken; the error
\* received from errChan is returned as it is
Flow_Select ==
    /\ AtAuth("select")
    /\ \E case \in SelectReady(call) :
         LET c == Event(call, case)
         IN  call' =
               CASE case = "code" ->
                      [c EXCEPT !.pc = "shutdown", !.code = Head(call.codeChan),
                                !.codeChan = <<>>]
                 [] case = "error" ->
                      FlowReturn([c EXCEPT !.errChan = <<>>], NoToken,
                                 Head(call.errChan))
                 [] case = "cancel" -> FlowReturn(c, NoToken, "context canceled")
                 [] case = "timeout" ->
                      FlowReturn(c, NoToken, "authorization timed out after 5 minutes")
    /\ UNCHANGED <<restoreVars, output>>

\* doOAuthFlow 205-207: server.Shutdown closes the listener and makes
\* Serve return ErrServerClosed; the handlers and the Serve goroutine run
\* on while Shutdown waits for the connections and while the exchange
\* waits for its answer (pc = "exchange")
Flow_Shutdown ==
    /\ AtAuth("shutdown")
    /\ call' = [Event(call, "shutdown") EXCEPT !.pc = "exchange", !.shutdown = TRUE,
                                              !.listener = "closed"]
    /\ UNCHANGED <<restoreVars, output>>

\* doOAuthFlow 210-215: the code is exchanged for a token; the exchange
\* fails under a cancelled context
Flow_Exchange ==
    /\ AtAuth("exchange")
    /\ \E ok \in BOOLEAN :
         LET c == Event(call, "exchange")
         IN  /\ call.cancelled => ~ok
             /\ call' = IF ok THEN FlowReturn(c, Exchanged(call.code), "")
                        ELSE FlowReturn(c, NoToken,
                                        "failed to exchange authorization code")
    /\ UNCHANGED <<restoreVars, output>>

\* GetClient 75-79: the token of the flow is saved (a failure to save is
\* only warned about) and the client is built on it
GetClient_SaveToken ==
    /\ AtAuth("saveToken")
    /\ \E saved \in SaveOutcomes :
         call' = Returned(Event([call EXCEPT !.saved = saved, !.store =
                                    saveToken(call.store,
                                              SavedToken(call.initialStore.token,
                                                         call.token), saved)],
                                "saveToken"),
                          call.token, "")
    /\ UNCHANGED <<restoreVars, output>>

NextAuth ==
    \/ GetClient_LoadCredentials
    \/ GetClient_LoadToken
    \/ GetClient_Refresh
    \/ Flow_Listen
    \/ Callback
    \/ Handler_Send
    \/ Serve_Return
    \/ Serve_Send
    \/ Cancel
    \/ TimerFire
    \/ Flow_Select
    \/ Flow_Shutdown
    \/ Flow_Exchange
    \/ GetClient_SaveToken

SpecAuth == InitAuth /\ [][NextAuth]_vars

\* time passes and the goroutine of doOAuthFlow is scheduled
SpecAuthLive == SpecAuth /\ WF_vars(TimerFire) /\ WF_vars(Flow_Select)

AuthExit == call.fn = "GetClient" /\ call.pc = "exit"

Did(e) == call.fn = "GetClient" /\ \E k \in DOMAIN call.events : call.events[k] = e

SecretUsable ==
    /\ call.secret.readable /\ call.secret.valid
    /\ call.secret.installed # "" \/ call.secret.web # ""

CachedUnexpired ==
    /\ call.initialStore.kind = "token"
    /\ call.initialStore.token.access # ""
    /\ ~call.initialStore.token.expired

\* C21: with a usable application secret and a cached credential that is
\* present and unexpired, GetClient returns, right after reading the store,
\* a client built on the cached credential: no refresh exchange, no
\* interactive flow, and the store as it was.
C21_CachedCredentialUsedDirectly ==
    (call.fn = "GetClient" /\ SecretUsable /\ CachedUnexpired
       /\ call.pc \notin {"loadCredentials", "loadToken"})
      => /\ call.pc = "exit" /\ call.err = ""
         /\ call.client = call.initialStore.token
         /\ call.events = <<"loadToken">>
         /\ call.store = call.initialStore
         /\ call.listener = "none"

C21_Witness ==
    /\ AuthExit /\ CachedUnexpired /\ call.err = ""
    /\ call.client = call.initialStore.token
    /\ call.client.refresh # ""

\* C22: a failed refresh exchange is not returned by GetClient: the
\* interactive flow runs next and GetClient fails exactly when the flow
\* fails, returning the flow's credential otherwise. With a usable secret
\* the flow is also run, without a refresh exchange, when the store holds
\* no credential or an expired one without refresh token.
C22_RefreshFailureFallsThroughToFlow ==
    AuthExit =>
      /\ Did("refreshFailed") =>
           /\ Did("flow")
           /\ call.err # "" <=> call.flowErr # ""
           /\ call.err = "" => call.client = call.flowToken
      /\ (SecretUsable
            /\ \/ call.initialStore.kind # "token"
               \/ call.initialStore.token.expired
                    /\ call.initialStore.token.refresh = "")
           => Did("flow") /\ ~Did("refresh")

C22_Witness ==
    /\ AuthExit /\ Did("refreshFailed") /\ call.initialStore.token.expired
    /\ call.err = "" /\ call.client = call.flowToken /\ call.client.access # ""

\* C23: whenever GetClient returns successfully after a refresh
\* exchange or after the interactive flow, the store holds exactly the
\* credential of the returned client.
C23_StoreHoldsReturnedCredential ==
    (AuthExit /\ call.err = "" /\ (Did("refresh") \/ Did("flow")))
      => call.store = Store("token", call.client)

FlowEndings ==
    {CallbackError(req) : req \in {r \in Callbacks : r.code = ""}}
      \cup {"authorization timed out after 5 minutes", "context canceled",
            "failed to exchange authorization code"}

\* C24: when the interactive flow ends with a callback error, a timeout, a
\* cancellation or a failed code exchange, GetClient returns an error and
\* the store is what it was before the call.
C24_FailedFlowLeavesStore ==
    (call.fn = "GetClient" /\ call.flowErr \in FlowEndings)
      => /\ call.pc = "exit" /\ call.err # "" /\ call.client = NoToken
         /\ call.store = call.initialStore

C24_Witness ==
    /\ AuthExit /\ call.flowErr = "failed to exchange authorization code"
    /\ call.initialStore.kind = "token"
    /\ call.store = call.initialStore

SelectOutcomes == {"code", "error", "cancel", "timeout"}

OutcomesTaken ==
    IF call.fn = "GetClient"
    THEN {k \in DOMAIN call.events : call.events[k] \in SelectOutcomes}
    ELSE {}

FlowReturned ==
    /\ call.fn = "GetClient" /\ call.pc \in {"saveToken", "exit"}
    /\ Did("flow") /\ call.flowErr # "failed to start local server"

\* C25: under every interleaving of callbacks, cancellation and timeout one
\* doOAuthFlow takes at most one of the four outcomes of its select,
\* exactly one once it is past the select, and when it has returned the
\* listener is closed and the server accepts no connection.
C25_OneOutcomeAndListenerClosed ==
    /\ Cardinality(OutcomesTaken) <= 1
    /\ (call.fn = "GetClient" /\ call.pc \in {"shutdown", "exchange"})
         => Cardinality(OutcomesTaken) = 1
    /\ FlowReturned =>
         /\ Cardinality(OutcomesTaken) = 1
         /\ call.listener = "closed"
         /\ ~(call.listener = "open" /\ call.serve = "serving")

C25_Witness ==
    /\ FlowReturned /\ Did("error") /\ call.listener = "closed"
    /\ call.codeChan # <<>> /\ call.cancelled /\ call.timer = "fired"

\* doOAuthFlow waits at its select, no callback has arrived or will, and
\* the caller does not cancel
NothingArrives ==
    /\ AtAuth("select")
    /\ call.callbacks = 0 /\ call.handlers = <<>>
    /\ ~call.mayCancel /\ ~call.cancelled

\* GetClient has returned the error of a flow that ended with e, without a
\* credential and with the listener closed
FlowEndedWith(e) ==
    /\ AuthExit
    /\ call.flowErr = e
    /\ call.flowToken = NoToken /\ call.client = NoToken /\ call.err # ""
    /\ call.listener = "closed"

TimedOut == FlowEndedWith("authorization timed out after 5 minutes")

\* C26 as stated: a doOAuthFlow that waits, to which no callback arrives
\* and whose context is not cancelled, eventually returns the timeout
\* error, no credential, with the listener closed.
C26_TimeoutWhenNothingArrives == NothingArrives ~> TimedOut

\* C26: a doOAuthFlow that waits, to which no callback arrives and whose
\* context is not cancelled, eventually returns an error and no
\* credential, with the listener closed: the timeout error, or the error
\* of server.Serve when Accept failed before the five minutes were over.
C26_TimeoutOrServeError ==
    NothingArrives ~> (TimedOut \/ FlowEndedWith(AcceptError))

C26_Witness == TimedOut /\ call.callbacks = 0 /\ call.handlers = <<>> /\ ~call.mayCancel

\* C27: with an application-secret file that is missing, is not valid JSON
\* or has neither block, GetClient returns an error as its first step: the
\* store is not read, nothing is refreshed, no flow is started; with both
\* blocks the client id of the installed block is used.
C27_BadSecretFailsFirst ==
    (call.fn = "GetClient" /\ call.pc # "loadCredentials")
      => /\ ~SecretUsable =>
              /\ call.pc = "exit" /\ call.err = "failed to load credentials"
              /\ call.events = <<>> /\ call.store = call.initialStore
              /\ call.listener = "none" /\ call.client = NoToken
         /\ (SecretUsable /\ call.secret.installed # "" /\ call.secret.web # "")
              => call.clientID = call.secret.installed

C27_Witness ==
    /\ AuthExit /\ call.secret.readable /\ call.secret.valid
    /\ call.secret.installed = "" /\ call.secret.web = ""
    /\ call.err = "failed to load credentials"

(***************************************************************************)
(* A restore run on a given archive and directory                          *)
(***************************************************************************)
ScenarioRecords == 50

ScenarioExisting == 10

\* the archive's groups: three user groups among the system groups
ScenarioGroups ==
    << Group(MyContacts, "My Contacts", SystemGroupType),
       Group("contactGroups/a1", "Work", UserGroupType),
       Group("contactGroups/starred", "Starred", SystemGroupType),
       Group("contactGroups/a2", "Home", UserGroupType),
       Group("contactGroups/a3", "Club", UserGroupType) >>

ScenarioMemberships(k) ==
    CASE k % 4 = 1 -> <<Member("contactGroups/a1"), Member(MyContacts)>>
      [] k % 4 = 2 -> <<Member(MyContacts), Member("contactGroups/a2"),
                        Member("contactGroups/a3")>>
      [] k % 4 = 3 -> <<Member("contactGroups/a3")>>
      [] OTHER -> <<Member(MyContacts)>>

ScenarioArchive ==
    BackupFile(BackupVersion,
               [k \in 1..ScenarioRecords |-> Person(k, ScenarioMemberships(k))],
               ScenarioGroups, ScenarioRecords, Len(ScenarioGroups))

\* runRestore on the archive, against a directory of ScenarioExisting people
InitScenario ==
    /\ call = NoCall
    /\ NoOutput
    /\ inputFile = [exists |-> TRUE, readable |-> TRUE, valid |-> TRUE,
                    doc |-> ScenarioArchive]
    /\ credsExist \in BOOLEAN
    /\ skipConfirm \in BOOLEAN
    /\ dirContacts = RemoteContacts(ScenarioExisting)
    /\ dirGroups \in RemoteGroupLists
    /\ initial = [contacts |-> Len(dirContacts), groups |-> dirGroups]
    /\ nextId = Len(dirContacts) + 1
    /\ nextGroup = 0
    /\ pc = "load"
    /\ err = ""
    /\ backup = NoBackup
    /\ log = <<>>
    /\ reports = <<>>
    /\ srvPages = <<>>
    /\ pageToken = 0
    /\ allContacts = <<>>
    /\ allGroups = <<>>
    /\ resourceNames = <<>>
    /\ userGroups = <<>>
    /\ i = 0
    /\ count = 0
    /\ total = 0
    /\ groupMap = EmptyMap
    /\ slept = {}

SpecScenario == InitScenario /\ [][Next]_vars

NewGroupNames == {NewGroupName(k) : k \in 1..3}

\* the groups, other than the system groups, that the memberships of the
\* people of a request refer to
UserGroupsReferenced(people) ==
    UNION {{people[k].memberships[m].contactGroupResourceName :
                m \in DOMAIN people[k].memberships} : k \in DOMAIN people}
      \ {MyContacts}

\* C28: a restore of the archive of 3 user groups and ScenarioRecords (50)
\* records against a directory of ScenarioExisting (10) people issues at
\* most one batch-delete, three create-group and one batch-create request;
\* a run that succeeds has issued exactly one batch-delete request with
\* the 10 identifiers, three create-group requests and one batch-create
\* request with the 50 records, whose memberships in user groups refer to
\* the three identifiers the service returned.
C28_ScenarioRequests ==
    LET deletes == Payloads("batchDelete")
        creates == Payloads("batchCreate")
    IN  /\ Len(deletes) <= 1
        /\ Len(Entries("createGroup")) <= 3
        /\ Len(creates) <= 1
        /\ \A k \in DOMAIN deletes : Len(deletes[k]) = ScenarioExisting
        /\ \A k \in DOMAIN creates :
             /\ Len(creates[k]) = ScenarioRecords
             /\ UserGroupsReferenced(creates[k]) = NewGroupNames
        /\ RunSucceeded =>
             /\ Len(deletes) = 1
             /\ deletes[1] = ResourceNames(RemoteContacts(ScenarioExisting))
             /\ Len(Entries("createGroup")) = 3
             /\ Len(creates) = 1
             /\ dirContacts = Created(creates[1], ScenarioExisting + 1)

C28_Witness ==
    /\ RunSucceeded
    /\ Len(Payloads("batchCreate")) = 1
    /\ Len(Payloads("batchCreate")[1]) = ScenarioRecords
    /\ Len(dirContacts) = ScenarioRecords

(***************************************************************************)
(* CSV export: countMaxFields, buildCSVHeaders                             *)
(***************************************************************************)
MaxFieldCount == 2

MaxCsvRecords == 2

FieldGroups ==
    {"emailAddresses", "phoneNumbers", "addresses", "events", "relations",
     "urls", "userDefined"}

\* a person with n entries in each field group of some and none in the
\* others, and the memberships of the archive's n-th record
CsvPerson(some, n) ==
    [f \in FieldGroups \cup {"memberships"} |->
        IF f = "memberships" THEN ArchiveMemberships(n)
        ELSE IF f \in some THEN [k \in 1..n |-> f] ELSE <<>>]

CsvPeople ==
    {CsvPerson({f}, n) : f \in FieldGroups, n \in 0..MaxFieldCount}
      \cup {CsvPerson(FieldGroups, n) : n \in 1..MaxFieldCount}

NoCounts ==
    [emails |-> 0, phones |-> 0, addresses |-> 0, events |-> 0, relations |-> 0,
     websites |-> 0, customFields |-> 0]

Larger(a, b) == IF a > b THEN a ELSE b

\* countMaxFields 50-72: the loop, from the counts so far
RECURSIVE CountFrom(_, _)
CountFrom(counts, contacts) ==
    IF contacts = <<>> THEN counts
    ELSE LET c == Head(contacts)
         IN  CountFrom([emails |-> Larger(Len(c.emailAddresses), counts.emails),
                        phones |-> Larger(Len(c.phoneNumbers), counts.phones),
                        addresses |-> Larger(Len(c.addresses), counts.addresses),
                        events |-> Larger(Len(c.events), counts.events),
                        relations |-> Larger(Len(c.relations), counts.relations),
                        websites |-> Larger(Len(c.urls), counts.websites),
                        customFields |-> Larger(Len(c.userDefined), counts.customFields)],
                       Tail(contacts))

countMaxFields(contacts) == CountFrom(NoCounts, contacts)

AtLeastOneSkipped(counts) == counts

\* SaveToCSV 418-424: at least one email and one phone column pair
AtLeastOne(counts) ==
    [counts EXCEPT !.emails = IF @ = 0 THEN 1 ELSE @,
                   !.phones = IF @ = 0 THEN 1 ELSE @]

SingularColumns ==
    <<"Name Prefix", "First Name", "Middle Name", "Last Name", "Name Suffix",
      "Phonetic First Name", "Phonetic Middle Name", "Phonetic Last Name",
      "Nickname", "File As", "Birthday", "Organization Name",
      "Organization Title", "Organization Department">>

PairParts == <<"Label", "Value">>

AddressParts ==
    <<"Label", "Street", "Extended Address", "City", "Region", "Postal Code",
      "Country", "PO Box">>

\* the columns of n entries of a group: fmt.Sprintf("<group> %d - <part>", i)
Columns(group, parts, n) ==
    [k \in 1..(n * Len(parts)) |->
        group \o " " \o NatStr(((k - 1) \div Len(parts)) + 1) \o " - "
          \o parts[((k - 1) % Len(parts)) + 1]]

buildCSVHeaders(counts) ==
    SingularColumns
      \o Columns("Email", PairParts, counts.emails)
      \o Columns("Phone", PairParts, counts.phones)
      \o Columns("Address", AddressParts, counts.addresses)
      \o Columns("Event", PairParts, counts.events)
      \o Columns("Relation", PairParts, counts.relations)
      \o Columns("Website", PairParts, counts.websites)
      \o Columns("Custom Field", PairParts, counts.customFields)
      \o <<"Notes", "Labels">>

GroupNameMapAll(groups) ==
    [rn \in {groups[k].resourceName : k \in DOMAIN groups} |->
        (CHOOSE g \in Range(groups) : g.resourceName = rn).name]

\* SaveToCSV 406-413: the names of the user groups, by resource name
GroupNameMap(groups) ==
    LET user == SelectSeq(groups, IsUserGroup)
    IN  [rn \in {user[k].resourceName : k \in DOMAIN user} |->
            LET last == CHOOSE k \in DOMAIN user :
                          /\ user[k].resourceName = rn
                          /\ \A j \in DOMAIN user : user[j].resourceName = rn => j <= k
            IN  user[last].name]

isSystemGroup(resourceName) ==
    resourceName \in
        {"contactGroups/myContacts", "contactGroups/starred", "contactGroups/chatBuddies",
         "contactGroups/all", "contactGroups/friends", "contactGroups/family",
         "contactGroups/coworkers", "contactGroups/blocked"}

RECURSIVE extractLabels(_, _)
extractLabels(memberships, groupNameMap) ==
    IF memberships = <<>> THEN <<>>
    ELSE LET m == Head(memberships)
             rn == m.contactGroupResourceName
             rest == extractLabels(Tail(memberships), groupNameMap)
         IN  IF m.hasContactGroupMembership /\ ~isSystemGroup(rn)
                  /\ rn \in DOMAIN groupNameMap
             THEN <<groupNameMap[rn]>> \o rest
             ELSE rest

labelSeparator == " ::: "

\* strings.Join
RECURSIVE Join(_, _)
Join(elems, sep) ==
    IF elems = <<>> THEN ""
    ELSE IF Len(elems) = 1 THEN elems[1]
    ELSE elems[1] \o sep \o Join(Tail(elems), sep)

CellsUnpadded(entries, width, n) ==
    [k \in 1..(Len(entries) * width) |-> entries[((k - 1) \div width) + 1]]

\* contactToCSVRow 221-305: the cells of a field group with n column
\* groups of the given width; the cells of an entry stand for its label
\* and values, the cells past the person's entries are empty
Cells(entries, width, n) ==
    [k \in 1..(n * width) |->
        IF ((k - 1) \div width) + 1 <= Len(entries)
        THEN entries[((k - 1) \div width) + 1] ELSE ""]

\* contactToCSVRow; the person has no name, nickname, birthday,
\* organization or biography: the 14 base cells and the notes are empty
contactToCSVRow(contact, counts, groupNameMap) ==
    [k \in 1..14 |-> ""]
      \o Cells(contact.emailAddresses, Len(PairParts), counts.emails)
      \o Cells(contact.phoneNumbers, Len(PairParts), counts.phones)
      \o Cells(contact.addresses, Len(AddressParts), counts.addresses)
      \o Cells(contact.events, Len(PairParts), counts.events)
      \o Cells(contact.relations, Len(PairParts), counts.relations)
      \o Cells(contact.urls, Len(PairParts), counts.websites)
      \o Cells(contact.userDefined, Len(PairParts), counts.customFields)
      \o <<"", Join(extractLabels(contact.memberships, groupNameMap), labelSeparator)>>

\* the files that may be at the path SaveToCSV is given: none, or an
\* earlier export
CsvPaths == {NoFile, WrittenFile(<<<<"Name">>>>)}

\* SaveToCSV 406-454 on the records b.Contacts and the groups b.Groups,
\* with the file call.file at the path.  call.rows: the rows built so far
InitHeaders ==
    /\ NoRun
    /\ call \in {[fn |-> "SaveToCSV", pc |-> "count", contacts |-> cs,
                  groups |-> ArchiveGroups, groupNameMap |-> EmptyMap,
                  counts |-> NoCounts, headers |-> <<>>, rows |-> <<>>,
                  file |-> f, initialFile |-> f, writer |-> NoWriter, err |-> ""] :
                    cs \in SeqsUpTo(CsvPeople, MaxCsvRecords), f \in CsvPaths}

\* SaveToCSV 407-424: the group name map, the counts, at least one email
\* and one phone column
CountCall ==
    /\ call.fn = "SaveToCSV" /\ call.pc = "count"
    /\ call' = [call EXCEPT !.pc = "headers",
                            !.groupNameMap = GroupNameMap(call.groups),
                            !.counts = AtLeastOne(countMaxFields(call.contacts))]
    /\ UNCHANGED <<restoreVars, output>>

\* SaveToCSV 427
HeadersCall ==
    /\ call.fn = "SaveToCSV" /\ call.pc = "headers"
    /\ call' = [call EXCEPT !.pc = "create", !.headers = buildCSVHeaders(call.counts)]
    /\ UNCHANGED <<restoreVars, output>>

\* SaveToCSV 430-438: os.Create(path) creates or truncates the file, or
\* fails; the csv writer is set up over it
CreateCall ==
    /\ call.fn = "SaveToCSV" /\ call.pc = "create"
    /\ \E ok \in BOOLEAN :
         call' = IF ok
                 THEN [call EXCEPT !.pc = "header", !.writer = NoWriter,
                                   !.file = Truncated(@, WrittenFile(<<>>))]
                 ELSE [call EXCEPT !.pc = "done", !.err = "failed to create CSV file"]
    /\ UNCHANGED <<restoreVars, output>>

\* SaveToCSV 441-443: writer.Write(headers); on an error the deferred
\* Flush and Close run and the error is returned
WriteHeaderCall ==
    /\ call.fn = "SaveToCSV" /\ call.pc = "header"
    /\ \E outcome \in CsvWriteOutcomes :
         LET r == CsvWrite(call.writer, call.file, call.headers, outcome)
             c == [call EXCEPT !.writer = r.writer, !.file = r.file]
         IN  call' = IF ~r.ok
                     THEN [c EXCEPT !.pc = "done", !.err = "failed to write CSV header"]
                     ELSE [c EXCEPT !.pc = IF Len(call.contacts) > 0 THEN "row"
                                           ELSE "return"]
    /\ UNCHANGED <<restoreVars, output>>

\* SaveToCSV 446-451: the row of the next record is built and written
RowsCall ==
    /\ call.fn = "SaveToCSV" /\ call.pc = "row"
    /\ \E outcome \in CsvWriteOutcomes :
         LET k == Len(call.rows) + 1
             row == contactToCSVRow(call.contacts[k], call.counts, call.groupNameMap)
             r == CsvWrite(call.writer, call.file, row, outcome)
             c == [call EXCEPT !.rows = Append(@, row), !.writer = r.writer,
                               !.file = r.file]
         IN  call' = IF ~r.ok
                     THEN [c EXCEPT !.pc = "done", !.err = "failed to write CSV row"]
                     ELSE [c EXCEPT !.pc = IF k < Len(call.contacts) THEN "row"
                                           ELSE "return"]
    /\ UNCHANGED <<restoreVars, output>>

\* SaveToCSV 453 with the deferred calls of 438 and 434: return nil, then
\* writer.Flush() writes the buffered rows (its error is not looked at) and
\* file.Close()
ReturnCall ==
    /\ call.fn = "SaveToCSV" /\ call.pc = "return"
    /\ \E flushed \in BOOLEAN :
         call' = [call EXCEPT
                     !.pc = "done", !.writer = NoWriter,
                     !.file = Truncated(@, IF flushed
                                           THEN WrittenFile(@.content \o call.writer.buffered)
                                           ELSE PartialFile(@.content))]
    /\ UNCHANGED <<restoreVars, output>>

NextHeaders ==
    \/ CountCall
    \/ HeadersCall
    \/ CreateCall
    \/ WriteHeaderCall
    \/ RowsCall
    \/ ReturnCall

SpecHeaders == InitHeaders /\ [][NextHeaders]_vars

\* the largest number of entries of the field group f over the records
MaxOf(f) ==
    CHOOSE n \in 0..MaxFieldCount :
        /\ \A k \in DOMAIN call.contacts : Len(call.contacts[k][f]) <= n
        /\ n = 0 \/ \E k \in DOMAIN call.contacts : Len(call.contacts[k][f]) = n

Raised(n) == IF n = 0 THEN 1 ELSE n

\* buildCSVHeaders has returned
HeadersBuilt == call.fn = "SaveToCSV" /\ call.pc \notin {"count", "headers"}

\* C29: the header SaveToCSV builds for a record set is the header of the
\* maxima E, P, A, Ev, R, W, C of the numbers of emails, phones, addresses,
\* events, relations, websites and custom fields over the records, E and P
\* raised to 1 when 0, and has 14 + 2*(E + P + Ev + R + W + C) + 8*A + 2
\* columns, all distinct.
C29_HeaderColumnCount ==
    HeadersBuilt =>
      LET E == Raised(MaxOf("emailAddresses"))
          P == Raised(MaxOf("phoneNumbers"))
          A == MaxOf("addresses")
          Ev == MaxOf("events")
          Rl == MaxOf("relations")
          W == MaxOf("urls")
          Cf == MaxOf("userDefined")
      IN  /\ call.headers =
                buildCSVHeaders([emails |-> E, phones |-> P, addresses |-> A,
                                 events |-> Ev, relations |-> Rl, websites |-> W,
                                 customFields |-> Cf])
          /\ Len(call.headers) = 14 + 2 * (E + P + Ev + Rl + W + Cf) + 8 * A + 2
          /\ Cardinality(Range(call.headers)) = Len(call.headers)

C29_Witness ==
    /\ HeadersBuilt
    /\ Len(call.contacts) = 2
    /\ MaxOf("emailAddresses") = 0
    /\ MaxOf("addresses") = 2
    /\ Len(call.headers) = 14 + 2 * 2 + 8 * 2 + 2

(***************************************************************************)
(* The delay between requests                                              *)
(***************************************************************************)
\* the request that follows the request at position j of the log
NextRequest(j) ==
    LET later == {k \in At(RequestOps) : k > j}
    IN  IF later = {} THEN 0
        ELSE CHOOSE k \in later : \A m \in later : k <= m

\* C30: between any two consecutive requests of a run to the remote
\* directory, the last request of one operation and the first of the next
\* included, time.Sleep(rateLimitDelay) has run.
C30_DelayBetweenRequests ==
    \A j \in At(RequestOps) : NextRequest(j) # 0 => j \in slept

(***************************************************************************)
(* Progress reports                                                        *)
(***************************************************************************)
ContactReports == SelectSeq(reports, LAMBDA r : r.op = "ListContacts")

\* C31: ListContacts reports once after every page it received; the
\* current value of the k-th report is the number of records of the first
\* k pages, so it never decreases; the total value is the same in every
\* report: what the first page declared, 0 if it declared none.
C31_ListProgressTotalOfFirstPage ==
    /\ Len(ContactReports) = Cardinality({k \in At({"listContacts"}) : log[k].ok})
    /\ \A k \in DOMAIN ContactReports :
         /\ k > 1 => ContactReports[k - 1].cur <= ContactReports[k].cur
         /\ (pc = "backup.ListContacts" /\ srvPages # <<>>)
              => ContactReports[k].cur = Len(Flatten(SubSeq(srvPages, 1, k)))
         /\ ContactReports[k].total = ContactReports[1].total

DeleteReports == SelectSeq(reports, LAMBDA r : r.op = "DeleteAllContacts")

\* C32: DeleteAllContacts reports once after every successful batch; the
\* k-th report gives the number of identifiers of the first k batches and
\* the number of records fetched, the former never above the latter; when
\* it returned no error over a directory that is not empty, the last
\* report has deleted equal to total.
C32_DeleteProgressReachesTotal ==
    /\ Len(DeleteReports) = Cardinality({k \in At({"batchDelete"}) : log[k].ok})
    /\ \A k \in DOMAIN DeleteReports :
         /\ DeleteReports[k].cur =
               Len(Flatten(SubSeq(Payloads("batchDelete"), 1, k)))
         /\ DeleteReports[k].total = initial.contacts
         /\ DeleteReports[k].cur <= DeleteReports[k].total
    /\ (DeleteAllContactsSucceeded /\ initial.contacts > 0)
         => /\ DeleteReports # <<>>
            /\ Last(DeleteReports).cur = Last(DeleteReports).total

\* DeleteAllContacts deleted a directory of two batches and reported after
\* each: first the size of a full batch of a total of one more, then the
\* total
C32_Witness ==
    /\ DeleteAllContactsSucceeded
    /\ initial.contacts = batchDeleteSize + 1
    /\ Len(DeleteReports) = 2
    /\ DeleteReports[1].cur = batchDeleteSize
    /\ DeleteReports[1].total = initial.contacts
    /\ Last(DeleteReports).cur = initial.contacts

(***************************************************************************)
(* A run of either command                                                 *)
(***************************************************************************)
InitRuns == Init \/ InitBackup

NextRuns == Next \/ NextBackup

SpecRuns == InitRuns /\ [][NextRuns]_vars

ListOps == {"listContacts", "listGroups"}

\* the mutation requests of the operation a listing belongs to
MutationsOf(op) == IF op = "listContacts" THEN {"batchDelete"} ELSE {"deleteGroup"}

\* C33: no page is requested twice; a failed page request of ListContacts
\* or ListGroups is the last request of the run, the listing returns no
\* record or group at all, the run ends with an error, the enclosing
\* DeleteAllContacts or DeleteUserGroups has issued no mutation and the
\* backup run has written no file and added nothing to its archive.
C33_FailedPageAbortsWithoutRetry ==
    /\ \A j, k \in At(ListOps) :
         (j < k /\ log[j].op = log[k].op) => log[j].arg < log[k].arg
    /\ \A k \in At(ListOps) :
         ~log[k].ok =>
            /\ k = Len(log)
            /\ pc = "exit" /\ err # ""
            /\ allContacts = <<>> /\ allGroups = <<>>
            /\ resourceNames = <<>> /\ userGroups = <<>>
            /\ At(MutationsOf(log[k].op)) = {}
            /\ At({"createGroup", "batchCreate", "save"}) = {}
            /\ IF "outputFile" \in DOMAIN initial
               THEN /\ outputFile = initial.outputFile
                    /\ log[k].op = "listContacts" => backup.contacts = <<>>
                    /\ log[k].op = "listGroups" => backup.groups = <<>>
               ELSE outputFile = NoFile

\* the second page request of the record listing of a restore failed
C33_Witness ==
    /\ log # <<>>
    /\ Last(log).op = "listContacts" /\ ~Last(log).ok /\ Last(log).arg = 1
    /\ pc = "exit" /\ err = "failed to delete contacts"
    /\ Len(dirContacts) = MaxRemote

(***************************************************************************)
(* CSV export: the rows                                                    *)
(***************************************************************************)
\* SaveToCSV has built rows, and has returned nil
RowsBuilt == call.fn = "SaveToCSV" /\ call.rows # <<>>

CsvSaved == call.fn = "SaveToCSV" /\ call.pc = "done" /\ call.err = ""

\* the cells of the entries, each entry filling width cells, followed by
\* empty cells up to n column groups
Padded(entries, width, n) ==
    Flatten([e \in DOMAIN entries |-> [p \in 1..width |-> entries[e]]])
      \o [b \in 1..((n - Len(entries)) * width) |-> ""]

\* C34: every row of the export has as many cells as the header; for each
\* repeated group with maximum N a record with k entries has k <= N, and
\* its row holds the cells of its k entries followed by N - k empty column
\* groups.
C34_RowsPaddedToHeader ==
    RowsBuilt =>
      \A r \in DOMAIN call.rows :
        LET c == call.contacts[r]
            n == call.counts
        IN  /\ Len(call.rows[r]) = Len(call.headers)
            /\ Len(c.emailAddresses) <= n.emails
            /\ Len(c.phoneNumbers) <= n.phones
            /\ Len(c.addresses) <= n.addresses
            /\ Len(c.events) <= n.events
            /\ Len(c.relations) <= n.relations
            /\ Len(c.urls) <= n.websites
            /\ Len(c.userDefined) <= n.customFields
            /\ SubSeq(call.rows[r], 15, Len(call.rows[r]) - 2) =
                  Padded(c.emailAddresses, 2, n.emails)
                    \o Padded(c.phoneNumbers, 2, n.phones)
                    \o Padded(c.addresses, 8, n.addresses)
                    \o Padded(c.events, 2, n.events)
                    \o Padded(c.relations, 2, n.relations)
                    \o Padded(c.urls, 2, n.websites)
                    \o Padded(c.userDefined, 2, n.customFields)

\* two records, the first with two addresses and the second with none
C34_Witness ==
    /\ RowsBuilt /\ CsvSaved
    /\ call.file = WrittenFile(<<call.headers>> \o call.rows)
    /\ Len(call.rows) = 2
    /\ Len(call.contacts[1].addresses) = 2
    /\ Len(call.contacts[2].addresses) = 0
    /\ Len(call.contacts[2].emailAddresses) = 1
    /\ Len(call.rows[2]) = Len(call.headers)

(***************************************************************************)
(* CSV export: the labels column                                           *)
(***************************************************************************)
\* the groups of an archive: system groups, user groups (one with an
\* identifier that begins like a system group's), and a system group the
\* export does not know by name
LabelGroups ==
    ArchiveGroups
      \o << Group("contactGroups/all1", "Allies", UserGroupType),
            Group("contactGroups/sys9", "Imported", SystemGroupType),
            Group("contactGroups/blocked", "Blocked", SystemGroupType) >>

LabelMembers ==
    {Member(LabelGroups[k].resourceName) : k \in DOMAIN LabelGroups}
      \cup {Member("contactGroups/gone"), DomainMember}

\* extractLabels on any memberships, with the group names of an archive
InitLabels ==
    /\ NoRun
    /\ call \in {[fn |-> "extractLabels", pc |-> "call", memberships |-> ms,
                  groups |-> gs, labels |-> <<>>, column |-> ""] :
                    ms \in SeqsUpTo(LabelMembers, MaxMemberships),
                    gs \in {<<>>, RemoteSystemGroups, LabelGroups}}

\* contactToCSVRow 316-317
LabelsCall ==
    /\ call.fn = "extractLabels" /\ call.pc = "call"
    /\ LET labels == extractLabels(call.memberships, GroupNameMap(call.groups))
       IN  call' = [call EXCEPT !.pc = "done", !.labels = labels,
                                !.column = Join(labels, labelSeparator)]
    /\ UNCHANGED <<restoreVars, output>>

NextLabels == LabelsCall

SpecLabels == InitLabels /\ [][NextLabels]_vars

LabelsBuilt == call.fn = "extractLabels" /\ call.pc = "done"

\* the user groups of the archive with the given identifier
UserGroupsNamed(rn) ==
    {g \in Range(call.groups) : g.groupType = UserGroupType /\ g.resourceName = rn}

\* C35: the labels column is the names, in membership order and joined by
\* " ::: ", of the user groups of the archive that the memberships refer
\* to; no name of a system group is among them, and a membership in a group
\* that the archive does not hold adds nothing.
C35_LabelsOfReferencedUserGroups ==
    LabelsBuilt =>
      LET referring ==
              SelectSeq(call.memberships,
                        LAMBDA m : /\ m.hasContactGroupMembership
                                   /\ UserGroupsNamed(m.contactGroupResourceName) # {})
          names == [k \in DOMAIN referring |->
                      (CHOOSE g \in UserGroupsNamed(referring[k].contactGroupResourceName) :
                          TRUE).name]
      IN  /\ call.labels = names
          /\ call.column = Join(names, " ::: ")
          /\ \A g \in Range(call.groups) :
               g.groupType # UserGroupType => g.name \notin Range(call.labels)

\* memberships in a system group, in two user groups and in a group that
\* is not in the archive
C35_Witness ==
    /\ LabelsBuilt
    /\ call.groups = LabelGroups
    /\ call.memberships = <<Member("contactGroups/all1"), Member("contactGroups/sys9"),
                            Member("contactGroups/a1")>>
    /\ call.column = "Allies ::: Work"

\* C36: cleanContactForCreation leaves its argument as it was: at every
\* point of a restore run, CreateContacts included, the records of the
\* archive in memory are the records that were loaded, with their
\* identifiers, entries and metadata stamps.
C36_ArchiveRecordsUnchanged ==
    backup # NoBackup => backup.contacts = inputFile.doc.contacts

\* the handler k is at its send and the channel is full
HandlerBlocked(k) ==
    /\ ~call.handlers[k].sent
    /\ IF call.handlers[k].req.code = "" THEN call.errChan # <<>>
       ELSE call.codeChan # <<>>

\* server.Serve returned an error and the goroutine is at its send on the
\* full errChan
ServeBlocked == call.serve = "sending" /\ call.errChan # <<>>

\* C37: once doOAuthFlow has returned (nothing receives from the channels
\* any more), no callback handler and not the server goroutine is at a send
\* on a full channel.
C37_NoSenderBlockedAfterReturn ==
    FlowReturned =>
      /\ \A k \in DOMAIN call.handlers : ~HandlerBlocked(k)
      /\ ~ServeBlocked

\* C38: a code is exchanged only if it came in a callback whose state
\* parameter is the state of the authorization URL of this flow.
C38_OnlyCallbackWithSentStateExchanged ==
    Did("exchange") =>
      \E k \in DOMAIN call.handlers :
        /\ call.handlers[k].req.code = call.code
        /\ call.handlers[k].req.state = "sent"

\* the rows of a whole export of the archive: the header row, then one
\* row per record in the archive's order
ExportRows ==
    <<HeaderRow>> \o [k \in 1..Len(backup.contacts) |-> RecordRow(backup.contacts[k])]

\* C39: when SaveToCSV has returned nil, the file holds the header row and
\* one row per record of the archive, all of them written and flushed.
C39_CsvSavedMeansAllRowsFlushed ==
    \A k \in At({"save"}) :
        (Format = Runes("csv") /\ log[k].ok) => outputFile = WrittenFile(ExportRows)

====
